---- MODULE Spec2Model ----
(***************************************************************************)
(* Model of the Notion <-> Excel merge engine (NotionExcelMergeApp):       *)
(* the value codec, the key indexes, the join planner and the plan         *)
(* executor, as state machines over the component's React state and the    *)
(* record store behind its api object.                                     *)
(*                                                                         *)
(* JavaScript values are records: a string is a tuple of one-character     *)
(* strings (so that trim, split and Number() are computed, not assumed),   *)
(* a number is an integer, and undefined / null / NaN are tagged records.  *)
(* JavaScript objects are records or functions with the same keys.         *)
(***************************************************************************)
EXTENDS Integers, Sequences, FiniteSets

(***************************************************************************)
(* JavaScript values                                                       *)
(***************************************************************************)
UNDEFINED == [t |-> "undefined"]
NULL == [t |-> "null"]
NaN == [t |-> "NaN"]
Str(s) == [t |-> "string", s |-> s]
Num(n) == [t |-> "number", n |-> n]
Bool(b) == [t |-> "boolean", b |-> b]
\* A JavaScript array
Arr(a) == [t |-> "array", a |-> a]

IsStr(v) == v.t = "string"
IsNum(v) == v.t = "number"
\* Mutant: the empty string counts as no value.
IsNullishOrBlank(v) == v = UNDEFINED \/ v = NULL \/ v = [t |-> "string", s |-> <<>>]
IsNullish(v) == v = UNDEFINED \/ v = NULL

\* The one-character strings that count as white space for trim and \s.
WhiteSpace == {" "}
Digits == <<"0", "1", "2", "3", "4", "5", "6", "7", "8", "9">>

RECURSIVE TrimLeft(_)
TrimLeft(s) ==
  IF s # <<>> /\ Head(s) \in WhiteSpace THEN TrimLeft(Tail(s)) ELSE s

RECURSIVE TrimRight(_)
TrimRight(s) ==
  IF s # <<>> /\ s[Len(s)] \in WhiteSpace
  THEN TrimRight(SubSeq(s, 1, Len(s) - 1))
  ELSE s

\* String.prototype.trim
Trim(s) == TrimRight(TrimLeft(s))

DigitValue(c) == CHOOSE d \in 0..9 : Digits[d + 1] = c
IsDigit(c) == \E d \in 0..9 : Digits[d + 1] = c

RECURSIVE DigitsToNat(_)
DigitsToNat(s) ==
  IF s = <<>> THEN 0
  ELSE 10 * DigitsToNat(SubSeq(s, 1, Len(s) - 1)) + DigitValue(s[Len(s)])

RECURSIVE NatToDigits(_)
NatToDigits(n) ==
  IF n < 10 THEN <<Digits[n + 1]>>
  ELSE NatToDigits(n \div 10) \o <<Digits[(n % 10) + 1]>>

\* String(value)
StringOf(v) ==
  CASE v.t = "string" -> v.s
    [] v.t = "number" ->
         IF v.n < 0 THEN <<"-">> \o NatToDigits(0 - v.n) ELSE NatToDigits(v.n)
    [] v.t = "boolean" ->
         IF v.b THEN <<"t", "r", "u", "e">> ELSE <<"f", "a", "l", "s", "e">>
    [] v.t = "NaN" -> <<"N", "a", "N">>
    [] v.t = "null" -> <<"n", "u", "l", "l">>
    [] OTHER -> <<"u", "n", "d", "e", "f", "i", "n", "e", "d">>

\* Number(value), on the decimal integer literals the alphabet can spell:
\* white space is trimmed, the empty string is 0, anything else is NaN.
NumberOf(v) ==
  CASE v.t = "number" -> v
    [] v.t = "boolean" -> IF v.b THEN Num(1) ELSE Num(0)
    [] v.t = "null" -> Num(0)
    [] v.t = "string" ->
         LET s == Trim(v.s)
             neg == s # <<>> /\ Head(s) = "-"
             body == IF neg THEN Tail(s) ELSE s
         IN  IF s = <<>> THEN Num(0)
             ELSE IF body # <<>> /\ \A i \in 1..Len(body) : IsDigit(body[i])
                  THEN Num(IF neg THEN 0 - DigitsToNat(body) ELSE DigitsToNat(body))
                  ELSE NaN
    [] OTHER -> NaN

\* isFinite(n) for the result of Number()
IsFinite(n) == n.t = "number"

\* Boolean(value): JavaScript truthiness
Truthy(v) ==
  CASE v.t = "string" -> v.s # <<>>
    [] v.t = "number" -> v.n # 0
    [] v.t = "boolean" -> v.b
    [] OTHER -> FALSE

(***************************************************************************)
(* Value codec                                                             *)
(***************************************************************************)
\* A text run as the record store returns it (it carries plain_text) and as
\* buildNotionPropertyValue writes it (it does not).
StoredRun(s) == [type |-> "text", text |-> [content |-> s], plain_text |-> s]
BuiltRun(s) == [type |-> "text", text |-> [content |-> s]]

\* v?.[0]?.plain_text ?? ""
FirstPlainText(v) ==
  IF Len(v.a) > 0 /\ "plain_text" \in DOMAIN v.a[1] THEN v.a[1].plain_text ELSE <<>>

RECURSIVE JoinNames(_)
\* v.map(x => x?.name).filter(Boolean).join(", ")
JoinNames(v) ==
  IF v = <<>> THEN <<>>
  ELSE LET rest == JoinNames(Tail(v))
           nm == Head(v).name
       IN  IF nm = <<>> THEN rest
           ELSE IF rest = <<>> THEN nm
           ELSE nm \o <<",", " ">> \o rest

\* getNotionPropertyPlainValue(props[name]): props is the properties object of
\* a page, and a property that is absent reads as undefined.
getNotionPropertyPlainValue(props, name) ==
  IF name \notin DOMAIN props THEN NULL
  ELSE LET prop == props[name] IN
    IF "type" \notin DOMAIN prop THEN NULL
    ELSE IF prop.type \notin DOMAIN prop THEN NULL
    ELSE LET type == prop.type
             v == prop[type]
         IN  IF v = NULL THEN NULL
             ELSE CASE type \in {"title", "rich_text"} -> Str(Trim(FirstPlainText(v)))
                    [] type = "number" -> IF IsNum(v) THEN v ELSE NumberOf(v)
                    [] type \in {"email", "url", "phone_number"} -> v
                    [] type \in {"select", "status"} -> Str(v.name)
                    [] type = "multi_select" -> Str(JoinNames(v.a))
                    [] type = "date" -> Str(v.start)
                    [] type = "checkbox" -> IF v.b THEN Str(<<"t", "r", "u", "e">>)
                                                 ELSE Str(<<"f", "a", "l", "s", "e">>)
                    [] OTHER -> NULL

\* value.split(/[,;]\s*/): cur is the segment being read, skipping is true
\* right after a separator, while its trailing white space is consumed.
RECURSIVE SplitFrom(_, _, _)
SplitFrom(s, cur, skipping) ==
  IF s = <<>> THEN <<cur>>
  ELSE IF Head(s) \in {",", ";"} THEN <<cur>> \o SplitFrom(Tail(s), <<>>, TRUE)
  ELSE IF skipping /\ Head(s) \in WhiteSpace THEN SplitFrom(Tail(s), cur, TRUE)
  ELSE SplitFrom(Tail(s), cur \o <<Head(s)>>, FALSE)

SplitCsv(s) == SplitFrom(s, <<>>, FALSE)

RECURSIVE NonEmptyNames(_)
\* .filter(Boolean).map((name) => ({ name }))
NonEmptyNames(segs) ==
  IF segs = <<>> THEN <<>>
  ELSE IF Head(segs) = <<>> THEN NonEmptyNames(Tail(segs))
  ELSE <<[name |-> Head(segs)]>> \o NonEmptyNames(Tail(segs))

\* The members of truthy and falsy, compared as Array.prototype.includes does
\* (no conversion between types).
CheckboxTruthy ==
  {Bool(TRUE), Str(<<"t", "r", "u", "e">>), Str(<<"1">>), Num(1),
   Str(<<"y", "e", "s">>), Str(<<"y">>)}
\* Mutant: the empty string is not in falsy.
CheckboxFalsyWithoutBlank ==
  {Bool(FALSE), Str(<<"f", "a", "l", "s", "e">>), Str(<<"0">>), Num(0),
   Str(<<"n", "o">>), Str(<<"n">>)}
CheckboxFalsy ==
  {Bool(FALSE), Str(<<"f", "a", "l", "s", "e">>), Str(<<"0">>), Num(0),
   Str(<<"n", "o">>), Str(<<"n">>), Str(<<>>)}

\* new Date(value) on the values every host parses alike: a string in the
\* date-only form YYYY-MM-DD is that day (UTC), a string without a digit is no
\* date, a number or a boolean is that many milliseconds after the epoch.
\* Any other string is left to the host's own parser and is not modelled.
DaysIn(month, year) ==
  IF month \in {4, 6, 9, 11} THEN 30
  ELSE IF month # 2 THEN 31
  ELSE IF year % 4 = 0 /\ (year % 100 # 0 \/ year % 400 = 0) THEN 29 ELSE 28
IsIsoDate(s) ==
  /\ Len(s) = 10
  /\ s[5] = "-" /\ s[8] = "-"
  /\ \A i \in {1, 2, 3, 4, 6, 7, 9, 10} : IsDigit(s[i])
  /\ LET year == DigitsToNat(SubSeq(s, 1, 4))
         month == DigitsToNat(SubSeq(s, 6, 7))
         day == DigitsToNat(SubSeq(s, 9, 10))
     IN  month \in 1..12 /\ day \in 1..DaysIn(month, year)
HasDigit(s) == \E i \in 1..Len(s) : IsDigit(s[i])
MsPerDay == 86400000
EpochDay == <<"1", "9", "7", "0", "-", "0", "1", "-", "0", "1">>
DayBeforeEpoch == <<"1", "9", "6", "9", "-", "1", "2", "-", "3", "1">>

\* d.toISOString().slice(0, 10), or NaN for an invalid date
DateStart(value) ==
  CASE value.t = "string" /\ IsIsoDate(value.s) -> Str(value.s)
    [] value.t = "string" /\ ~HasDigit(value.s) -> NaN
    [] value.t = "boolean" -> Str(EpochDay)
    [] value.t = "number" /\ value.n \in 0..(MsPerDay - 1) -> Str(EpochDay)
    [] value.t = "number" /\ value.n \in (0 - MsPerDay)..(0 - 1) -> Str(DayBeforeEpoch)

\* buildNotionPropertyValue(targetType, value) with createMultiFromCSV = true
buildNotionPropertyValue(targetType, value) ==
  IF IsNullish(value) THEN UNDEFINED
  ELSE CASE targetType = "title" -> [title |-> Arr(<<BuiltRun(StringOf(value))>>)]
         [] targetType = "rich_text" -> [rich_text |-> Arr(<<BuiltRun(StringOf(value))>>)]
         [] targetType = "number" ->
              LET n == NumberOf(value) IN IF IsFinite(n) THEN [number |-> n] ELSE UNDEFINED
         [] targetType = "email" -> [email |-> Str(StringOf(value))]
         [] targetType = "url" -> [url |-> Str(StringOf(value))]
         [] targetType = "phone_number" -> [phone_number |-> Str(StringOf(value))]
         [] targetType = "select" ->
              [select |-> IF value = Str(<<>>) THEN NULL ELSE [name |-> StringOf(value)]]
         [] targetType = "multi_select" ->
              IF value.t = "array"
              THEN [multi_select |-> Arr([i \in 1..Len(value.a) |->
                                            [name |-> StringOf(value.a[i])]])]
              ELSE IF IsStr(value)
              THEN [multi_select |-> Arr(NonEmptyNames(SplitCsv(value.s)))]
              ELSE [multi_select |-> Arr(<<>>)]
         [] targetType = "date" ->
              LET d == DateStart(value)
              IN  IF d = NaN THEN UNDEFINED ELSE [date |-> [start |-> d.s]]
         [] targetType = "checkbox" ->
              IF value \in CheckboxTruthy THEN [checkbox |-> Bool(TRUE)]
              ELSE IF value \in CheckboxFalsy THEN [checkbox |-> Bool(FALSE)]
              ELSE UNDEFINED
         [] targetType = "status" -> [status |-> [name |-> StringOf(value)]]
         [] OTHER -> [rich_text |-> Arr(<<BuiltRun(StringOf(value))>>)]

(***************************************************************************)
(* JavaScript objects and Maps                                             *)
(***************************************************************************)
\* obj[k], undefined for a key the object does not have
Get(obj, k) == IF k \in DOMAIN obj THEN obj[k] ELSE UNDEFINED

\* A Map is the sequence of its entries in insertion order.
MapHas(m, k) == \E i \in 1..Len(m) : m[i].key = k
MapGet(m, k) == m[CHOOSE i \in 1..Len(m) : m[i].key = k].value
\* Mutant: set leaves the value of an existing key alone.
MapSetKeepingFirst(m, k, v) ==
  IF MapHas(m, k) THEN m ELSE Append(m, [key |-> k, value |-> v])

\* Map.prototype.set: an existing key keeps its place and takes the new value.
MapSet(m, k, v) ==
  IF MapHas(m, k)
  THEN [i \in 1..Len(m) |-> IF m[i].key = k THEN [key |-> k, value |-> v] ELSE m[i]]
  ELSE Append(m, [key |-> k, value |-> v])
MapKeys(m) == [i \in 1..Len(m) |-> m[i].key]

\* An object whose key order is read (changes, read by Object.entries) is the
\* sequence of its entries too: obj[k] = v keeps the place of an existing key.
EmptyObject == <<>>
Put(obj, k, v) == MapSet(obj, k, v)
Keys(obj) == {obj[i].key : i \in 1..Len(obj)}
\* { ...a, ...b } for an object a whose key order is not read
Spread(a, b) ==
  [x \in DOMAIN a \cup Keys(b) |-> IF x \in Keys(b) THEN MapGet(b, x) ELSE a[x]]

SeqToSet(q) == {q[i] : i \in 1..Len(q)}

(***************************************************************************)
(* Key indexes                                                             *)
(***************************************************************************)
RECURSIVE ExcelIndexFrom(_, _, _)
ExcelIndexFrom(rows, key, map) ==
  IF rows = <<>> THEN map
  ELSE LET row == Head(rows)
           cell == Get(row, key)
           keyVal == Trim(StringOf(IF IsNullish(cell) THEN Str(<<>>) ELSE cell))
       IN  ExcelIndexFrom(Tail(rows), key,
                          IF keyVal # <<>> THEN MapSet(map, keyVal, row) ELSE map)

\* The excelIndex memo: keys are the trimmed, non-empty key cells.
excelIndex(rows, key) == IF key = "" THEN <<>> ELSE ExcelIndexFrom(rows, key, <<>>)

RECURSIVE NotionIndexFrom(_, _, _)
NotionIndexFrom(pgs, key, map) ==
  IF pgs = <<>> THEN map
  ELSE LET pg == Head(pgs)
           plain == getNotionPropertyPlainValue(pg.properties, key)
           keyVal == IF plain # NULL THEN Trim(StringOf(plain)) ELSE <<>>
       IN  NotionIndexFrom(Tail(pgs), key,
                           IF keyVal # <<>> THEN MapSet(map, keyVal, pg) ELSE map)

\* What the notionIndex memo computes from pages and notionKey.
NotionIndexOf(pgs, key) == IF key = "" THEN <<>> ELSE NotionIndexFrom(pgs, key, <<>>)

(***************************************************************************)
(* Join planner                                                            *)
(***************************************************************************)
\* dbProps.find((p) => p.name === name)?.type ?? "rich_text"
TargetType(props, name) ==
  IF \E i \in 1..Len(props) : props[i].name = name
  THEN props[CHOOSE i \in 1..Len(props) :
               props[i].name = name /\ \A j \in 1..(i - 1) : props[j].name # name].type
  ELSE "rich_text"

\* Mutant: the inner join forgets to test the record index.
JoinKeysInnerUnfiltered(left, right, jt) ==
  CASE jt = "left" -> MapKeys(left)
    [] jt = "right" -> MapKeys(right)
    [] jt = "inner" -> MapKeys(left)
    [] jt = "outer" ->
         MapKeys(left) \o SelectSeq(MapKeys(right), LAMBDA k : ~MapHas(left, k))
    [] OTHER -> <<>>

\* Mutant: the outer join collects the keys in an array, not in a Set.
JoinKeysOuterConcat(left, right, jt) ==
  CASE jt = "left" -> MapKeys(left)
    [] jt = "right" -> MapKeys(right)
    [] jt = "inner" -> SelectSeq(MapKeys(left), LAMBDA k : MapHas(right, k))
    [] jt = "outer" -> MapKeys(left) \o MapKeys(right)
    [] OTHER -> <<>>

\* The key universe, in the iteration order of the Set keys.
JoinKeys(left, right, jt) ==
  CASE jt = "left" -> MapKeys(left)
    [] jt = "right" -> MapKeys(right)
    [] jt = "inner" -> SelectSeq(MapKeys(left), LAMBDA k : MapHas(right, k))
    [] jt = "outer" ->
         MapKeys(left) \o SelectSeq(MapKeys(right), LAMBDA k : ~MapHas(left, k))
    [] OTHER -> <<>>

\* Mutant: the test of the only-update-empty policy is inverted.
NonEmptyValueInverted(existingValue) == existingValue = NULL \/ existingValue = Str(<<>>)

\* existingValue !== null && existingValue !== ""
NonEmptyValue(existingValue) == existingValue # NULL /\ existingValue # Str(<<>>)

\* Whether a built value holds what the page's property holds already: the
\* same payload under the property's type, text compared by its content.
PayloadOf(v, type) ==
  IF type \in {"title", "rich_text"} /\ v[type].t = "array"
  THEN [i \in 1..Len(v[type].a) |-> v[type].a[i].text.content]
  ELSE v[type]
SameAsCurrent(built, props, name) ==
  /\ name \in DOMAIN props
  /\ "type" \in DOMAIN props[name]
  /\ props[name].type \in DOMAIN props[name]
  /\ props[name].type \in DOMAIN built
  /\ PayloadOf(built, props[name].type) = PayloadOf(props[name], props[name].type)

RECURSIVE UpdateChangesSkippingEqual(_, _, _, _, _, _)
\* Mutant: a built value equal to the page's current value is not staged.
UpdateChangesSkippingEqual(ms, excelRow, page, props, onlyEmpty, changes) ==
  IF ms = <<>> THEN changes
  ELSE LET m == Head(ms)
           srcVal == Get(excelRow, m.excelColumn)
           existingValue == getNotionPropertyPlainValue(page.properties, m.notionProperty)
           built == buildNotionPropertyValue(TargetType(props, m.notionProperty), srcVal)
           next == IF m.notionProperty = "" THEN changes
                   ELSE IF onlyEmpty /\ NonEmptyValue(existingValue) THEN changes
                   ELSE IF built # UNDEFINED
                           /\ ~SameAsCurrent(built, page.properties, m.notionProperty)
                        THEN Put(changes, m.notionProperty, built)
                   ELSE changes
       IN  UpdateChangesSkippingEqual(Tail(ms), excelRow, page, props, onlyEmpty, next)

RECURSIVE UpdateChanges(_, _, _, _, _, _)
\* The loop over mappings for a key present on both sides.
UpdateChanges(ms, excelRow, page, props, onlyEmpty, changes) ==
  IF ms = <<>> THEN changes
  ELSE LET m == Head(ms)
           srcVal == Get(excelRow, m.excelColumn)
           existingValue == getNotionPropertyPlainValue(page.properties, m.notionProperty)
           built == buildNotionPropertyValue(TargetType(props, m.notionProperty), srcVal)
           next == IF m.notionProperty = "" THEN changes
                   ELSE IF onlyEmpty /\ NonEmptyValue(existingValue) THEN changes
                   ELSE IF built # UNDEFINED THEN Put(changes, m.notionProperty, built)
                   ELSE changes
       IN  UpdateChanges(Tail(ms), excelRow, page, props, onlyEmpty, next)

RECURSIVE CreateChanges(_, _, _, _)
\* The loop over mappings for a key present on the Excel side only.
CreateChanges(ms, excelRow, props, changes) ==
  IF ms = <<>> THEN changes
  ELSE LET m == Head(ms)
           srcVal == Get(excelRow, m.excelColumn)
           built == buildNotionPropertyValue(TargetType(props, m.notionProperty), srcVal)
           next == IF m.notionProperty = "" THEN changes
                   ELSE IF built # UNDEFINED THEN Put(changes, m.notionProperty, built)
                   ELSE changes
       IN  CreateChanges(Tail(ms), excelRow, props, next)

\* Mutant: page creation does not ask for the allowCreatePages switch.
MayCreateWithoutSwitch(jt, allowCreate) == jt \in {"left", "outer"}

\* (joinType === "left" || joinType === "outer") && allowCreatePages
MayCreate(jt, allowCreate) == jt \in {"left", "outer"} /\ allowCreate

\* Mutant: a matched key is always an update plan.
MatchedPlanAlwaysUpdate(key, excelRow, page, changes) ==
  [key |-> key, action |-> "update", excel |-> excelRow, page |-> page,
   changes |-> changes]

\* A key present on both sides: update when changes has a key, else skip.
MatchedPlan(key, excelRow, page, changes) ==
  IF Len(changes) > 0
  THEN [key |-> key, action |-> "update", excel |-> excelRow, page |-> page,
        changes |-> changes]
  ELSE [key |-> key, action |-> "skip", excel |-> excelRow, page |-> page,
        reason |-> "No changes computed"]

\* A key present on the Excel side only.
SourceOnlyPlan(key, excelRow, jt, ms, props, allowCreate) ==
  IF MayCreate(jt, allowCreate)
  THEN [key |-> key, action |-> "create", excel |-> excelRow,
        changes |-> CreateChanges(ms, excelRow, props, EmptyObject)]
  ELSE [key |-> key, action |-> "skip", excel |-> excelRow,
        reason |-> "No matching Notion page"]

\* Mutant: a key present on the Notion side only is planned as a create.
RecordOnlyPlanAsCreate(key, page) ==
  [key |-> key, action |-> "create", page |-> page, changes |-> EmptyObject]

\* A key present on the Notion side only.
RecordOnlyPlan(key, page) ==
  [key |-> key, action |-> "skip", page |-> page, reason |-> "No matching Excel row"]

\* The body of keys.forEach: the plans pushed for one key of the universe.
PlanFor(key, left, right, jt, ms, props, onlyEmpty, allowCreate) ==
  IF MapHas(left, key) /\ MapHas(right, key)
  THEN <<MatchedPlan(key, MapGet(left, key), MapGet(right, key),
                     UpdateChanges(ms, MapGet(left, key), MapGet(right, key), props,
                                   onlyEmpty, EmptyObject))>>
  ELSE IF MapHas(left, key)
  THEN <<SourceOnlyPlan(key, MapGet(left, key), jt, ms, props, allowCreate)>>
  ELSE IF MapHas(right, key)
  THEN <<RecordOnlyPlan(key, MapGet(right, key))>>
  ELSE <<>>

RECURSIVE PlansFor(_, _, _, _, _, _, _, _)
PlansFor(keys, left, right, jt, ms, props, onlyEmpty, allowCreate) ==
  IF keys = <<>> THEN <<>>
  ELSE PlanFor(Head(keys), left, right, jt, ms, props, onlyEmpty, allowCreate)
       \o PlansFor(Tail(keys), left, right, jt, ms, props, onlyEmpty, allowCreate)

buildPlannedUpdates(left, right, jt, ms, props, onlyEmpty, allowCreate) ==
  PlansFor(JoinKeys(left, right, jt), left, right, jt, ms, props, onlyEmpty, allowCreate)

(***************************************************************************)
(* Data: the built-in mock database (makeMock) and the bounded inputs      *)
(***************************************************************************)
A001 == <<"A", "0", "0", "1">>
A002 == <<"A", "0", "0", "2">>
X999 == <<"X", "9", "9", "9">>
New == <<"N", "e", "w">>
Done == <<"D", "o", "n", "e">>
Open == <<"O", "p", "e", "n">>
Red == <<"r", "e", "d">>
Blue == <<"b", "l", "u", "e">>
Hello == <<"h", "e", "l", "l", "o">>
MockDbId == <<"m", "o", "c", "k", "-", "d", "b">>

TitleValue(s) == [type |-> "title", title |-> Arr(<<StoredRun(s)>>)]
RichTextValue(runs) == [type |-> "rich_text", rich_text |-> Arr(runs)]
SelectValue(v) == [type |-> "select", select |-> v]
MultiSelectValue(names) == [type |-> "multi_select", multi_select |-> Arr(names)]
NumberValue(v) == [type |-> "number", number |-> v]

\* makeMock().db.properties, in insertion order; options is def[def.type].options
MockDbProperties ==
  << [name |-> "Key", type |-> "title", options |-> UNDEFINED],
     [name |-> "Status", type |-> "select",
      options |-> Arr(<<[name |-> New], [name |-> Done]>>)],
     [name |-> "Tags", type |-> "multi_select",
      options |-> Arr(<<[name |-> Red], [name |-> Blue]>>)],
     [name |-> "Amount", type |-> "number", options |-> UNDEFINED],
     [name |-> "Note", type |-> "rich_text", options |-> UNDEFINED] >>

\* makeMock().pages
MockPage1 ==
  [id |-> <<"p", "1">>,
   properties |-> [Key |-> TitleValue(A001),
                   Status |-> SelectValue([name |-> New]),
                   Tags |-> MultiSelectValue(<<[name |-> Red]>>),
                   Amount |-> NumberValue(Num(10)),
                   Note |-> RichTextValue(<<StoredRun(Hello)>>)]]
MockPage2 ==
  [id |-> <<"p", "2">>,
   properties |-> [Key |-> TitleValue(A002),
                   Status |-> SelectValue([name |-> Done]),
                   Tags |-> MultiSelectValue(<<[name |-> Blue]>>),
                   Amount |-> NumberValue(Num(5)),
                   Note |-> RichTextValue(<<>>)]]
MockPages == <<MockPage1, MockPage2>>

\* const props = Object.entries(db.properties).map(...) in loadDatabase
LoadedProps(properties) ==
  [i \in 1..Len(properties) |->
     [name |-> properties[i].name, type |-> properties[i].type,
      options |-> IF IsNullish(properties[i].options) THEN Arr(<<>>)
                  ELSE properties[i].options]]

\* Other pages a database can hold: an A001 page with a status but no amount
\* and no note, a page keyed X999 with surrounding blanks, a page with a
\* blank key.
PartlyEmptyPage ==
  [id |-> <<"p", "3">>,
   properties |-> [Key |-> TitleValue(A001),
                   Status |-> SelectValue([name |-> Done]),
                   Amount |-> NumberValue(NULL),
                   Note |-> RichTextValue(<<>>)]]
PaddedKeyPage ==
  [id |-> <<"p", "4">>,
   properties |-> [Key |-> TitleValue(<<" ">> \o X999 \o <<" ">>),
                   Status |-> SelectValue(NULL),
                   Amount |-> NumberValue(NULL)]]
BlankKeyPage ==
  [id |-> <<"p", "5">>,
   properties |-> [Key |-> TitleValue(<<" ">>),
                   Status |-> SelectValue([name |-> Done]),
                   Amount |-> NumberValue(Num(5))]]
\* The databases the planner is run against: empty, the mock's, one with two
\* pages of the same key, one whose keys need trimming or are blank, a mix.
PageLists ==
  { <<>>,
    MockPages,
    <<MockPage1, PartlyEmptyPage>>,
    <<PaddedKeyPage, BlankKeyPage>>,
    <<PartlyEmptyPage, MockPage2, PaddedKeyPage>> }

\* Rows of an uploaded sheet (sheet_to_json with defval ""): a blank cell is
\* the empty string, a numeric cell a number.
RowPool ==
  { [K |-> Str(A001), Amount |-> Str(<<"1", "0">>), Status |-> Str(New)],
    [K |-> Str(<<" ">> \o A001), Amount |-> Str(<<>>), Status |-> Str(<<>>)],
    [K |-> Str(A002), Amount |-> Num(5), Status |-> Str(Done)],
    [K |-> Str(X999), Amount |-> Str(<<"x">>), Status |-> Str(Open)],
    [K |-> Str(<<>>), Amount |-> Num(7), Status |-> Str(New)],
    [Amount |-> Num(7), Status |-> Str(New)] }

\* Mapping configurations: one field, two fields, a mapping whose Notion
\* property is not chosen yet beside one whose Excel column is not chosen,
\* and two mappings onto one property.
Mapping(id, col, prop) == [id |-> id, excelColumn |-> col, notionProperty |-> prop]
MappingPool ==
  { <<Mapping("m1", "Amount", "Amount")>>,
    <<Mapping("m1", "Amount", "Amount"), Mapping("m2", "Status", "Status")>>,
    <<Mapping("m1", "Amount", ""), Mapping("m2", "", "Note")>>,
    <<Mapping("m1", "Status", "Note"), Mapping("m2", "Amount", "Note")>> }

JoinTypes == {"left", "right", "inner", "outer"}

\* Bound of the planner's inputs: the rows of the sheet.
MaxRows == 2

SeqsUpTo(S, n) == UNION {[1..k -> S] : k \in 0..n}

(***************************************************************************)
(* State                                                                   *)
(***************************************************************************)
VARIABLES
  \* the component's configuration
  useMock,        \* Mock or Proxy backend
  databaseId,     \* the Database ID field
  excelKey,       \* Excel key column
  notionKey,      \* Notion key property
  joinType,
  mappings,
  onlyUpdateEmpty,
  createMissingSelectOptions,
  allowCreatePages,
  \* the component's data
  excelRows,      \* rows of the uploaded sheet
  dbProps,        \* the loaded schema
  pages,          \* the loaded pages
  pagesShared,    \* pages is the mock's own array (queryDatabase returns state.pages)
  notionIndex,    \* the notionIndex memo (recomputed when pages or notionKey change)
  \* execution state
  dryRun,         \* null, or the plans of the last preview
  runStatus,
  progress,
  runError,
  \* the record store behind api (the mock's state, or the remote database)
  store,
  \* the run in progress: where onExecute is suspended, and its locals
  pc,             \* "idle", or the await the run is suspended at
  runEnv,         \* what the onExecute closure captured: databaseId, dbProps, useMock
  runPlans,       \* const plans
  plansShared,    \* plans is still the array dryRun holds
  runIdx,         \* i of pMapSerial
  runDone,        \* let done
  \* history
  calls,          \* the api calls of the current run, in the order issued
  inflight,       \* the calls not answered yet (indexes into calls)
  delays,         \* the pacing delays of the current run
  runs,           \* runs started so far
  earlier,        \* per run before the current one: the requests it sent, how
                  \* it ended, and whether the run after it started from the
                  \* plans array it iterated
  fresh,          \* no input of the planner has changed since the last preview
  \* the load in progress: where loadDatabase is suspended, and its locals
  loadPc,         \* "idle", or the await the load is suspended at
  loadEnv,        \* what the loadDatabase closure captured, and const db
  loadCalls,      \* the api calls of the current load, in the order issued
  loadError,
  loads           \* loadDatabase invocations so far

configVars ==
  <<useMock, databaseId, excelKey, notionKey, joinType, mappings, onlyUpdateEmpty,
    createMissingSelectOptions, allowCreatePages>>
dataVars == <<excelRows, dbProps, pages, pagesShared, notionIndex>>
statusVars == <<runStatus, progress, runError>>
runVars == <<pc, runEnv, runPlans, plansShared, runIdx, runDone>>
histVars == <<calls, inflight, delays, runs, earlier>>
loadVars == <<loadPc, loadEnv, loadCalls, loadError, loads>>

vars ==
  <<configVars, dataVars, dryRun, statusVars, store, runVars, histVars, fresh, loadVars>>

\* const canPreview = databaseId && excelRows.length > 0 && excelKey && notionKey
\*                    && mappings.length > 0
canPreview ==
  /\ databaseId # <<>>
  /\ Len(excelRows) > 0
  /\ excelKey # ""
  /\ notionKey # ""
  /\ Len(mappings) > 0

\* What buildPlannedUpdates reads of the component's state.
PlannerInputs ==
  <<excelRows, excelKey, notionIndex, joinType, mappings, dbProps, onlyUpdateEmpty,
    allowCreatePages>>

\* buildPlannedUpdates() on the component's current state
CurrentPlans ==
  buildPlannedUpdates(excelIndex(excelRows, excelKey), notionIndex, joinType,
                      mappings, dbProps, onlyUpdateEmpty, allowCreatePages)

\* User events are tasks: none runs between a mock call and its continuation,
\* which are microtasks.
LoadSettled == IF loadPc = "idle" THEN TRUE ELSE ~loadEnv.useMock
Quiescent ==
  /\ IF pc \in {"idle", "delay"} THEN TRUE ELSE ~runEnv.useMock
  /\ LoadSettled

\* function onPreview() { setDryRun(buildPlannedUpdates()); }
\* The new array is not the one a run in progress iterates.
onPreview ==
  /\ canPreview
  /\ Quiescent
  /\ dryRun' = Arr(CurrentPlans)
  /\ plansShared' = FALSE
  /\ fresh' = TRUE
  /\ UNCHANGED <<configVars, dataVars, statusVars, store, histVars>>
  /\ UNCHANGED <<pc, runEnv, runPlans, runIdx, runDone>>
  /\ UNCHANGED loadVars

\* The state with no run started.
NoRun ==
  /\ runStatus = "idle"
  /\ progress = 0
  /\ runError = NULL
  /\ pc = "idle"
  /\ runEnv = NULL
  /\ runPlans = <<>>
  /\ plansShared = FALSE
  /\ runIdx = 0
  /\ runDone = 0
  /\ calls = <<>>
  /\ inflight = {}
  /\ delays = 0
  /\ runs = 0
  /\ earlier = <<>>

\* The state with no load started.
NoLoad ==
  /\ loadPc = "idle"
  /\ loadEnv = NULL
  /\ loadCalls = <<>>
  /\ loadError = NULL
  /\ loads = 0

\* The record store holding a database with the given pages.
StoreOf(pgs) == [id |-> MockDbId, properties |-> MockDbProperties, pages |-> pgs]

(***************************************************************************)
(* The planner on bounded inputs: every sheet of at most MaxRows rows,     *)
(* every database of PageLists, every join type, mapping set and policy.   *)
(***************************************************************************)
InitPlan ==
  /\ useMock = FALSE
  /\ databaseId = MockDbId
  /\ excelRows \in SeqsUpTo(RowPool, MaxRows)
  /\ excelKey = "K"
  /\ notionKey = "Key"
  /\ store \in {StoreOf(pgs) : pgs \in PageLists}
  /\ dbProps = LoadedProps(store.properties)
  /\ pages = store.pages
  /\ pagesShared = FALSE
  /\ notionIndex = NotionIndexOf(pages, notionKey)
  /\ joinType \in JoinTypes
  /\ mappings \in MappingPool
  /\ onlyUpdateEmpty \in BOOLEAN
  /\ createMissingSelectOptions = TRUE
  /\ allowCreatePages \in BOOLEAN
  /\ dryRun = NULL
  /\ fresh = FALSE
  /\ NoRun
  /\ NoLoad

NextPlan == onPreview

SpecPlan == InitPlan /\ [][NextPlan]_vars

(***************************************************************************)
(* Option reconciler                                                       *)
(***************************************************************************)
HasProp(props, name) == \E i \in 1..Len(props) : props[i].name = name
\* dbProps.find((p) => p.name === name)
FindProp(props, name) ==
  props[CHOOSE i \in 1..Len(props) :
          props[i].name = name /\ \A j \in 1..(i - 1) : props[j].name # name]

\* The option names one value of changes asks for, under the property's type.
OptionNames(def, val) ==
  CASE def.type = "select" /\ "select" \in DOMAIN val ->
         IF val.select # NULL /\ val.select.name # <<>> THEN <<val.select.name>> ELSE <<>>
    [] def.type = "multi_select" /\ "multi_select" \in DOMAIN val ->
         [i \in 1..Len(val.multi_select.a) |-> val.multi_select.a[i].name]
    [] def.type = "status" /\ "status" \in DOMAIN val ->
         IF val.status.name # <<>> THEN <<val.status.name>> ELSE <<>>
    [] OTHER -> <<>>

RECURSIVE NeededOfChanges(_, _)
\* for (const [propName, val] of Object.entries(plan.changes ?? {}))
NeededOfChanges(changes, props) ==
  IF changes = <<>> THEN <<>>
  ELSE LET e == Head(changes)
           here == IF HasProp(props, e.key)
                   THEN LET def == FindProp(props, e.key)
                            names == OptionNames(def, e.value)
                        IN  [i \in 1..Len(names) |-> [prop |-> def, name |-> names[i]]]
                   ELSE <<>>
       IN  here \o NeededOfChanges(Tail(changes), props)

RECURSIVE NeededOfPlans(_, _)
\* The needed array onExecute collects from the update and create plans.
NeededOfPlans(plans, props) ==
  IF plans = <<>> THEN <<>>
  ELSE (IF Head(plans).action \in {"update", "create"}
        THEN NeededOfChanges(Head(plans).changes, props)
        ELSE <<>>) \o NeededOfPlans(Tail(plans), props)

RECURSIVE Distinct(_)
\* The elements of a sequence in first-seen order (a Set's iteration order).
Distinct(q) ==
  IF q = <<>> THEN <<>>
  ELSE LET init == Distinct(SubSeq(q, 1, Len(q) - 1))
       IN  IF q[Len(q)] \in SeqToSet(init) THEN init ELSE Append(init, q[Len(q)])

\* The needed names grouped by property: properties and names in first-seen order.
GroupedProps(needed) == Distinct([i \in 1..Len(needed) |-> needed[i].prop.name])
GroupedNames(needed, propName) ==
  Distinct([i \in 1..Len(SelectSeq(needed, LAMBDA n : n.prop.name = propName)) |->
              SelectSeq(needed, LAMBDA n : n.prop.name = propName)[i].name])
GroupedDef(needed, propName) ==
  SelectSeq(needed, LAMBDA n : n.prop.name = propName)[1].prop

\* Mutant: the missing options are put in front of the existing ones.
WithMissingOptionsFirst(def, names) ==
  LET current == def.options.a
      existing == {current[i].name : i \in 1..Len(current)}
      toAdd == SelectSeq(names, LAMBDA nm : nm \notin existing)
  IN  [i \in 1..Len(toAdd) |-> [name |-> toAdd[i]]] \o current

\* [...current, ...toAdd.map((name) => ({ name }))]
WithMissingOptions(def, names) ==
  LET current == def.options.a
      existing == {current[i].name : i \in 1..Len(current)}
      toAdd == SelectSeq(names, LAMBDA nm : nm \notin existing)
  IN  current \o [i \in 1..Len(toAdd) |-> [name |-> toAdd[i]]]
\* Mutant: every named property counts as missing an option.
HasMissingOptionsAlways(def, names) == TRUE

HasMissingOptions(def, names) ==
  \E i \in 1..Len(names) :
    names[i] \notin {def.options.a[j].name : j \in 1..Len(def.options.a)}

RECURSIVE MockEnsuredFrom(_, _, _, _)
\* ensureSelectOptions in mock mode: one setDbProps per grouped property, each
\* option list computed from the dbProps the closure holds.
MockEnsuredFrom(propNames, needed, closureProps, prev) ==
  IF propNames = <<>> THEN prev
  ELSE LET propName == Head(propNames)
           next == IF HasProp(closureProps, propName)
                   THEN WithMissingOptions(FindProp(closureProps, propName),
                                           GroupedNames(needed, propName))
                   ELSE [i \in 1..Len(GroupedNames(needed, propName)) |->
                           [name |-> GroupedNames(needed, propName)[i]]]
       IN  MockEnsuredFrom(Tail(propNames), needed, closureProps,
             [i \in 1..Len(prev) |->
                IF prev[i].name = propName THEN [prev[i] EXCEPT !.options = Arr(next)]
                ELSE prev[i]])
MockEnsured(props, needed) == MockEnsuredFrom(GroupedProps(needed), needed, props, props)

RECURSIVE UpdatePayloadFrom(_, _)
\* ensureSelectOptions in proxy mode: updatePayload, an entry per property
\* that misses an option.
UpdatePayloadFrom(propNames, needed) ==
  IF propNames = <<>> THEN <<>>
  ELSE LET prop == GroupedDef(needed, Head(propNames))
           names == GroupedNames(needed, Head(propNames))
       IN  (IF HasMissingOptions(prop, names)
            THEN <<[key |-> prop.name,
                    value |-> [type |-> prop.type,
                               options |-> Arr(WithMissingOptions(prop, names))]]>>
            ELSE <<>>) \o UpdatePayloadFrom(Tail(propNames), needed)
UpdatePayload(needed) == UpdatePayloadFrom(GroupedProps(needed), needed)

(***************************************************************************)
(* Record store: the api object                                            *)
(***************************************************************************)
\* Bound: the runs started (each run can add pages to the store).
MaxRuns == 2

Message(text) == [t |-> "message", text |-> text]
OtherDbId == <<"d", "b", "2">>

\* uid(): an id no page of the store has
NewId(st) == <<"n">> \o NatToDigits(Len(st.pages) + 1)

HasPage(st, id) == \E i \in 1..Len(st.pages) : st.pages[i].id = id

\* The properties object a call sends, as an object whose key order is not read.
AsObject(entries) == Spread([x \in {} |-> NULL], entries)

\* What the remote database stores for a value it is sent: the typed value,
\* its text runs with their plain_text.
RemoteValue(built) ==
  LET f == CHOOSE x \in DOMAIN built : TRUE
      payload == IF f \in {"title", "rich_text"}
                 THEN Arr([i \in 1..Len(built[f].a) |->
                             StoredRun(built[f].a[i].text.content)])
                 ELSE built[f]
  IN  [x \in {"type", f} |-> IF x = "type" THEN f ELSE payload]
RemoteObject(entries) ==
  [x \in Keys(entries) |-> RemoteValue(MapGet(entries, x))]

\* One api call: op, the database or page id it names, the properties it
\* sends, the plan it is issued for (0 for none) and how it was answered.
Call(op, id, body, plan) ==
  [op |-> op, id |-> id, body |-> body, plan |-> plan, result |-> "pending",
   error |-> NULL]

\* createMockApi: the call that throws, and its message.
MockRejects(st, c) ==
  IF c.op = "updatePage" THEN ~HasPage(st, c.id) ELSE c.id # st.id
MockError(c) ==
  IF c.op = "updatePage" THEN Message("Page not found (mock)")
  ELSE Message("Database not found (mock)")

\* createMockApi: the state after a call that does not throw.
MockApply(st, c) ==
  CASE c.op = "updatePage" ->
         [st EXCEPT !.pages =
            [i \in 1..Len(st.pages) |->
               IF st.pages[i].id = c.id
               THEN [st.pages[i] EXCEPT !.properties = Spread(@, c.body)]
               ELSE st.pages[i]]]
    [] c.op = "createPage" ->
         [st EXCEPT !.pages =
            Append(@, [id |-> NewId(st), properties |-> AsObject(c.body)])]
    [] OTHER -> st

\* createProxyApi: a call the remote database cannot accept (unknown database
\* or page); any other call can fail as well (network, authorization).
RemoteRejects(st, c) ==
  IF c.op = "updatePage" THEN ~HasPage(st, c.id) ELSE c.id # st.id
RemoteError == Message("proxy response text")

\* The remote database after a request the proxy forwarded succeeded.
RemoteApply(st, c) ==
  CASE c.op = "updatePage" ->
         [st EXCEPT !.pages =
            [i \in 1..Len(st.pages) |->
               IF st.pages[i].id = c.id
               THEN [st.pages[i] EXCEPT
                       !.properties =
                         [x \in DOMAIN @ \cup Keys(c.body) |->
                            IF x \in Keys(c.body) THEN RemoteValue(MapGet(c.body, x))
                            ELSE @[x]]]
               ELSE st.pages[i]]]
    [] c.op = "createPage" ->
         [st EXCEPT !.pages =
            Append(@, [id |-> NewId(st), properties |-> RemoteObject(c.body)])]
    [] c.op = "updateDatabase" ->
         [st EXCEPT !.properties =
            [i \in 1..Len(st.properties) |->
               IF MapHas(c.body, st.properties[i].name)
               THEN [st.properties[i] EXCEPT
                       !.options = MapGet(c.body, st.properties[i].name).options]
               ELSE st.properties[i]]]
    [] OTHER -> st

(***************************************************************************)
(* Plan executor: onExecute, one step per await                            *)
(***************************************************************************)
\* Mutant: the percentage is cut off, not rounded.
PercentFloor(done, total) == (100 * done) \div total

\* Math.round((done / plans.length) * 100)
Percent(done, total) == (200 * done + total) \div (2 * total)

\* dbProps.find((p) => p.type === "title")?.name
HasTitleProp(props) == \E i \in 1..Len(props) : props[i].type = "title"
TitleProp(props) ==
  props[CHOOSE i \in 1..Len(props) :
          props[i].type = "title" /\ \A j \in 1..(i - 1) : props[j].type # "title"].name

\* Mutant: the title is written from the key whether or not one is there.
WithTitleAlways(properties, props, key) ==
  IF HasTitleProp(props)
  THEN Put(properties, TitleProp(props), buildNotionPropertyValue("title", Str(key)))
  ELSE properties

\* if (titleProp && !properties[titleProp]) properties[titleProp] = ...
WithTitle(properties, props, key) ==
  IF HasTitleProp(props) /\ ~MapHas(properties, TitleProp(props))
  THEN Put(properties, TitleProp(props), buildNotionPropertyValue("title", Str(key)))
  ELSE properties

\* The run as its locals and the state it writes: position, the plans array,
\* the dryRun state (the same array while it is shared), done, progress, the
\* calls issued, the calls unanswered, the delays started.
Running ==
  [pc |-> pc, plans |-> runPlans, dryRun |-> dryRun, idx |-> runIdx, done |-> runDone,
   progress |-> progress, calls |-> calls, inflight |-> inflight, delays |-> delays]

\* Mutant: every request is sent twice.
IssueTwice(r, c, at) ==
  [r EXCEPT !.calls = @ \o <<c, c>>,
            !.inflight = @ \cup {Len(r.calls) + 1, Len(r.calls) + 2}, !.pc = at]

Issue(r, c, at) ==
  [r EXCEPT !.calls = Append(@, c), !.inflight = @ \cup {Len(r.calls) + 1}, !.pc = at]

\* Mutant: the refresh is never asked for, the run waits for nothing.
RefreshNeverSent(r, env) == [r EXCEPT !.pc = "lost"]

\* const q = await api.queryDatabase(databaseId.trim())
Refresh(r, env) == Issue(r, Call("queryDatabase", env.databaseId, <<>>, 0), "refresh")

\* done += 1; setProgress(...); then pMapSerial's delay between two items
AfterItem(r, env) ==
  LET counted == [r EXCEPT !.done = @ + 1, !.progress = Percent(r.done + 1, Len(r.plans))]
  IN  IF r.idx < Len(r.plans)
      THEN [counted EXCEPT !.pc = "delay", !.delays = @ + 1]
      ELSE Refresh(counted, env)

\* The callback of pMapSerial on plans[i], up to its await.
Enter(r, i, env, shared) ==
  LET at == [r EXCEPT !.idx = i]
  IN  IF i > Len(r.plans) THEN Refresh(at, env)
      ELSE LET plan == r.plans[i]
           IN  CASE plan.action = "update" /\ "page" \in DOMAIN plan ->
                      Issue(at, Call("updatePage", plan.page.id, plan.changes, i), "call")
                 [] plan.action = "create" ->
                      LET properties == WithTitle(plan.changes, env.dbProps, plan.key)
                          mutated == [r.plans EXCEPT ![i].changes = properties]
                      IN  Issue([at EXCEPT !.plans = mutated,
                                           !.dryRun = IF shared THEN Arr(mutated) ELSE @],
                                Call("createPage", env.databaseId, properties, i), "call")
                 [] OTHER -> AfterItem(at, env)

Commit(r) ==
  /\ pc' = r.pc /\ runPlans' = r.plans /\ dryRun' = r.dryRun /\ runIdx' = r.idx
  /\ runDone' = r.done /\ progress' = r.progress /\ calls' = r.calls
  /\ inflight' = r.inflight /\ delays' = r.delays

Answered(r, i, result, error) ==
  [r EXCEPT !.calls[i].result = result, !.calls[i].error = error, !.inflight = @ \ {i}]

\* What the api does with a call: whether it can succeed, whether it can
\* fail, the state it leaves and the error it throws.
CanSucceed(env, c) ==
  IF env.useMock THEN ~MockRejects(store, c) ELSE ~RemoteRejects(store, c)
CanFail(env, c) == IF env.useMock THEN MockRejects(store, c) ELSE TRUE
Applied(env, c) == IF env.useMock THEN MockApply(store, c) ELSE RemoteApply(store, c)
Thrown(env, c) == IF env.useMock THEN MockError(c) ELSE RemoteError

\* The page objects of the mock are the objects the pages state and the
\* memoised index hold: an update of one is seen through all of them.
Mirrored(index, st) ==
  [i \in 1..Len(index) |->
     [index[i] EXCEPT !.value =
        IF HasPage(st, index[i].value.id)
        THEN st.pages[CHOOSE j \in 1..Len(st.pages) : st.pages[j].id = index[i].value.id]
        ELSE @]]

\* Mutant: the catch block puts the status back to idle.
CatchToIdle(i, err) ==
  /\ runStatus' = "idle"
  /\ runError' = err
  /\ Commit([Answered(Running, i, "rejected", err) EXCEPT !.pc = "idle"])
  /\ UNCHANGED <<configVars, dataVars, store, runEnv, plansShared, runs, earlier, fresh>>
  /\ UNCHANGED loadVars

\* Mutant: the catch block sends the rejected request again and lets the run
\* go on.
CatchRetrying(i, err) ==
  /\ runStatus' = "error"
  /\ runError' = err
  /\ Commit(Issue(Answered(Running, i, "rejected", err),
                  Call(calls[i].op, calls[i].id, calls[i].body, calls[i].plan), pc))
  /\ UNCHANGED <<configVars, dataVars, store, runEnv, plansShared, runs, earlier, fresh>>
  /\ UNCHANGED loadVars

\* catch (err): setRunError(err?.message ?? String(err)); setRunStatus("error")
Catch(i, err) ==
  /\ runStatus' = "error"
  /\ runError' = err
  /\ Commit([Answered(Running, i, "rejected", err) EXCEPT !.pc = "idle"])
  /\ UNCHANGED <<configVars, dataVars, store, runEnv, plansShared, runs, earlier, fresh>>
  /\ UNCHANGED loadVars

\* The requests of a list of calls that change the store: what each names
\* and sends.
Requests(cs) ==
  LET changing == SelectSeq(cs, LAMBDA c : c.op # "queryDatabase")
  IN  [n \in 1..Len(changing) |->
         [op |-> changing[n].op, id |-> changing[n].id, body |-> changing[n].body]]

\* Mutant: a run plans anew.
PlansRecomputed == CurrentPlans

\* const plans = dryRun ?? buildPlannedUpdates()
PlansOfRun == IF dryRun # NULL THEN dryRun.a ELSE CurrentPlans

\* The guard of the Execute button and the synchronous head of onExecute, up
\* to its first await.
onExecute ==
  /\ dryRun # NULL /\ runStatus # "running"
  /\ Quiescent
  /\ runs < MaxRuns
  /\ IF databaseId = <<>> THEN UNCHANGED vars
     ELSE LET env == [databaseId |-> Trim(databaseId), dbProps |-> dbProps,
                      useMock |-> useMock]
              plans == PlansOfRun
              needed == IF createMissingSelectOptions THEN NeededOfPlans(plans, dbProps)
                        ELSE <<>>
              updatePayload == IF useMock THEN <<>> ELSE UpdatePayload(needed)
              r == [pc |-> "idle", plans |-> plans, dryRun |-> dryRun, idx |-> 0,
                    done |-> 0, progress |-> 0, calls |-> <<>>, inflight |-> {},
                    delays |-> 0]
          IN  /\ runStatus' = "running" /\ runError' = NULL
              /\ runEnv' = env
              /\ plansShared' = TRUE
              /\ runs' = runs + 1
              /\ earlier' = IF runs = 0 THEN earlier
                            ELSE Append(earlier, [sent |-> Requests(calls),
                                                  status |-> runStatus,
                                                  kept |-> plansShared])
              /\ dbProps' = IF useMock THEN MockEnsured(dbProps, needed) ELSE dbProps
              /\ fresh' = (fresh /\ dbProps' = dbProps)
              /\ Commit(IF updatePayload # <<>>
                        THEN Issue(r, Call("updateDatabase", env.databaseId,
                                           updatePayload, 0), "ensure")
                        ELSE Enter(r, 1, env, TRUE))
              /\ UNCHANGED <<configVars, excelRows, pages, pagesShared, notionIndex, store>>
  /\ UNCHANGED loadVars

\* await api.updateDatabase(...) returns: pMapSerial starts.
ensureResolved ==
  /\ pc = "ensure"
  /\ \E i \in inflight :
       /\ CanSucceed(runEnv, calls[i])
       /\ store' = Applied(runEnv, calls[i])
       /\ Commit(Enter(Answered(Running, i, "ok", NULL), 1, runEnv, plansShared))
  /\ UNCHANGED <<configVars, dataVars, runStatus, runError, runEnv, plansShared, runs, earlier, fresh>>
  /\ UNCHANGED loadVars

ensureRejected ==
  /\ pc = "ensure"
  /\ \E i \in inflight : CanFail(runEnv, calls[i]) /\ Catch(i, Thrown(runEnv, calls[i]))

\* await api.updatePage(...) / api.createPage(...) returns.
callResolved ==
  /\ pc = "call"
  /\ \E i \in inflight :
       /\ CanSucceed(runEnv, calls[i])
       /\ store' = Applied(runEnv, calls[i])
       /\ pages' = IF pagesShared THEN store'.pages ELSE pages
       /\ notionIndex' = IF pagesShared THEN Mirrored(notionIndex, store') ELSE notionIndex
       /\ Commit(AfterItem(Answered(Running, i, "ok", NULL), runEnv))
  /\ fresh' = (fresh /\ notionIndex' = notionIndex)
  /\ UNCHANGED <<configVars, excelRows, dbProps, pagesShared, runStatus, runError, runEnv,
                 plansShared, runs, earlier>>
  /\ UNCHANGED loadVars

callRejected ==
  /\ pc = "call"
  /\ \E i \in inflight : CanFail(runEnv, calls[i]) /\ Catch(i, Thrown(runEnv, calls[i]))

\* pMapSerial: await new Promise((r) => setTimeout(r, delayMs)) returns.
delayElapsed ==
  /\ pc = "delay"
  /\ LoadSettled
  /\ Commit(Enter(Running, runIdx + 1, runEnv, plansShared))
  /\ UNCHANGED <<configVars, dataVars, runStatus, runError, store, runEnv, plansShared,
                 runs, earlier, fresh>>
  /\ UNCHANGED loadVars

\* Bound: the records one response of the remote database carries (Notion
\* answers a query with one page of results and has_more).
PageSize == 3

\* q.results of api.queryDatabase(database_id): the mock returns its pages
\* array, the proxy the first page of results, as no start_cursor is sent.
QueryResults(env, st) ==
  IF env.useMock THEN st.pages
  ELSE SubSeq(st.pages, 1, IF Len(st.pages) < PageSize THEN Len(st.pages) ELSE PageSize)

\* The refresh returns: setPages(q.results); setRunStatus("done"). The index is
\* memoised on the identity of pages: the mock returns the array pages holds.
refreshResolved ==
  /\ pc = "refresh"
  /\ \E i \in inflight :
       /\ CanSucceed(runEnv, calls[i])
       /\ Commit([Answered(Running, i, "ok", NULL) EXCEPT !.pc = "idle"])
  /\ pages' = QueryResults(runEnv, store)
  /\ pagesShared' = runEnv.useMock
  /\ notionIndex' = IF runEnv.useMock /\ pagesShared THEN notionIndex
                    ELSE NotionIndexOf(pages', notionKey)
  /\ runStatus' = "done"
  /\ fresh' = (fresh /\ notionIndex' = notionIndex)
  /\ UNCHANGED <<configVars, excelRows, dbProps, runError, store, runEnv, plansShared, runs, earlier>>
  /\ UNCHANGED loadVars

refreshRejected ==
  /\ pc = "refresh"
  /\ \E i \in inflight : CanFail(runEnv, calls[i]) /\ Catch(i, Thrown(runEnv, calls[i]))

(***************************************************************************)
(* loadDatabase, one step per await                                        *)
(***************************************************************************)
\* Bound: the loadDatabase invocations.
MaxLoads == 2

Required == Message("Database ID is required")

\* The guard of the Load button and the synchronous head of loadDatabase: the
\* validation of the id, or the first request.
loadDatabase ==
  /\ databaseId # <<>> /\ loadPc = "idle"
  /\ Quiescent
  /\ loads < MaxLoads
  /\ loads' = loads + 1
  /\ IF Trim(databaseId) = <<>>
     THEN /\ loadError' = Required
          /\ UNCHANGED <<loadPc, loadEnv, loadCalls>>
     ELSE /\ loadError' = NULL
          /\ loadPc' = "retrieve"
          /\ loadEnv' = [databaseId |-> Trim(databaseId), useMock |-> useMock,
                         db |-> NULL]
          /\ loadCalls' = <<Call("retrieveDatabase", Trim(databaseId), <<>>, 0)>>
  /\ UNCHANGED <<configVars, dataVars, dryRun, statusVars, store, runVars, histVars, fresh>>

LoadAnswered(result, error) ==
  [loadCalls EXCEPT ![Len(loadCalls)].result = result, ![Len(loadCalls)].error = error]

\* Mutant: the catch block of loadDatabase clears the schema and keeps the
\* pages of the load before.
LoadCatchKeepingPages(err) ==
  /\ dbProps' = <<>>
  /\ loadError' = err
  /\ loadPc' = "idle"
  /\ loadCalls' = LoadAnswered("rejected", err)
  /\ fresh' = (fresh /\ dbProps' = dbProps)
  /\ UNCHANGED <<configVars, excelRows, pages, pagesShared, notionIndex, dryRun,
                 statusVars, store, runVars, histVars, loadEnv, loads>>

\* catch (err): setDbProps([]); setPages([]); setLoadError(...)
LoadCatch(err) ==
  /\ dbProps' = <<>>
  /\ pages' = <<>>
  /\ pagesShared' = FALSE
  /\ notionIndex' = NotionIndexOf(pages', notionKey)
  /\ loadError' = err
  /\ loadPc' = "idle"
  /\ loadCalls' = LoadAnswered("rejected", err)
  /\ fresh' = (fresh /\ dbProps' = dbProps /\ notionIndex' = notionIndex)
  /\ UNCHANGED <<configVars, excelRows, dryRun, statusVars, store, runVars, histVars,
                 loadEnv, loads>>

\* await api.retrieveDatabase(...) returns: setDbProps(props), then the query.
retrieveResolved ==
  /\ loadPc = "retrieve"
  /\ CanSucceed(loadEnv, loadCalls[Len(loadCalls)])
  /\ dbProps' = LoadedProps(store.properties)
  /\ loadEnv' = [loadEnv EXCEPT !.db = store.properties]
  /\ loadCalls' = Append(LoadAnswered("ok", NULL),
                         Call("queryDatabase", loadEnv.databaseId, <<>>, 0))
  /\ loadPc' = "query"
  /\ fresh' = (fresh /\ dbProps' = dbProps)
  /\ UNCHANGED <<configVars, excelRows, pages, pagesShared, notionIndex, dryRun,
                 statusVars, store, runVars, histVars, loadError, loads>>

retrieveRejected ==
  /\ loadPc = "retrieve"
  /\ CanFail(loadEnv, loadCalls[Len(loadCalls)])
  /\ LoadCatch(Thrown(loadEnv, loadCalls[Len(loadCalls)]))

\* await api.queryDatabase(...) returns: setPages(q.results).
queryResolved ==
  /\ loadPc = "query"
  /\ CanSucceed(loadEnv, loadCalls[Len(loadCalls)])
  /\ pages' = QueryResults(loadEnv, store)
  /\ pagesShared' = loadEnv.useMock
  /\ notionIndex' = IF loadEnv.useMock /\ pagesShared THEN notionIndex
                    ELSE NotionIndexOf(pages', notionKey)
  /\ loadCalls' = LoadAnswered("ok", NULL)
  /\ loadPc' = "idle"
  /\ fresh' = (fresh /\ notionIndex' = notionIndex)
  /\ UNCHANGED <<configVars, excelRows, dbProps, dryRun, statusVars, store, runVars,
                 histVars, loadEnv, loadError, loads>>

queryRejected ==
  /\ loadPc = "query"
  /\ CanFail(loadEnv, loadCalls[Len(loadCalls)])
  /\ LoadCatch(Thrown(loadEnv, loadCalls[Len(loadCalls)]))

(***************************************************************************)
(* Settings the user changes between and during runs                       *)
(***************************************************************************)
DatabaseIds == {MockDbId, OtherDbId, <<>>}

setDatabaseId ==
  /\ Quiescent
  /\ \E v \in DatabaseIds \ {databaseId} : databaseId' = v
  /\ UNCHANGED <<useMock, excelKey, notionKey, joinType, mappings, onlyUpdateEmpty,
                 createMissingSelectOptions, allowCreatePages>>
  /\ UNCHANGED <<dataVars, dryRun, statusVars, store, runVars, histVars, fresh>>
  /\ UNCHANGED loadVars

\* Ids the user leaves in the Database ID field: the database's, or blanks.
Blank == <<" ">>
TypedIds == {MockDbId, Blank}

typeDatabaseId ==
  /\ Quiescent
  /\ \E v \in TypedIds \ {databaseId} : databaseId' = v
  /\ UNCHANGED <<useMock, excelKey, notionKey, joinType, mappings, onlyUpdateEmpty,
                 createMissingSelectOptions, allowCreatePages>>
  /\ UNCHANGED <<dataVars, dryRun, statusVars, store, runVars, histVars, fresh, loadVars>>

\* function removeMapping(id) { setMappings((m) => m.filter((x) => x.id !== id)); }
removeMapping ==
  /\ Quiescent
  /\ \E i \in 1..Len(mappings) :
       mappings' = SelectSeq(mappings, LAMBDA x : x.id # mappings[i].id)
  /\ fresh' = FALSE
  /\ UNCHANGED <<useMock, databaseId, excelKey, notionKey, joinType, onlyUpdateEmpty,
                 createMissingSelectOptions, allowCreatePages>>
  /\ UNCHANGED <<dataVars, dryRun, statusVars, store, runVars, histVars, loadVars>>

\* The join types the user switches to once the session is set up.
JoinTypeChoices == {"inner", "outer"}

setJoinType ==
  /\ Quiescent
  /\ \E v \in JoinTypeChoices \ {joinType} : joinType' = v
  /\ fresh' = FALSE
  /\ UNCHANGED <<useMock, databaseId, excelKey, notionKey, mappings, onlyUpdateEmpty,
                 createMissingSelectOptions, allowCreatePages>>
  /\ UNCHANGED <<dataVars, dryRun, statusVars, store, runVars, histVars>>
  /\ UNCHANGED loadVars

(***************************************************************************)
(* The session: a loaded database, an uploaded sheet, a mapping            *)
(***************************************************************************)
\* Sheets against the mock database: a row that matches a page and a row that
\* matches none and names a status the schema lacks; a row that matches none;
\* two rows of one key and a row that matches the other page; three rows that
\* name two statuses the schema lacks, one of them twice.
Hold == <<"H", "o", "l", "d">>
Sheets ==
  { << [K |-> Str(A001), Amount |-> Str(<<"1", "0">>), Status |-> Str(New)],
       [K |-> Str(X999), Amount |-> Num(7), Status |-> Str(Open)] >>,
    << [K |-> Str(X999), Amount |-> Str(<<"x">>), Status |-> Str(Open)] >>,
    << [K |-> Str(A001), Amount |-> Num(7), Status |-> Str(Open)],
       [K |-> Str(<<" ">> \o A001), Amount |-> Str(<<>>), Status |-> Str(<<>>)],
       [K |-> Str(A002), Amount |-> Num(5), Status |-> Str(Done)] >>,
    << [K |-> Str(A001), Amount |-> Num(7), Status |-> Str(Open)],
       [K |-> Str(A002), Amount |-> Num(5), Status |-> Str(Hold)],
       [K |-> Str(X999), Amount |-> Num(7), Status |-> Str(Open)] >> }

Init ==
  /\ useMock \in BOOLEAN
  /\ databaseId = MockDbId
  /\ excelRows \in Sheets
  /\ excelKey = "K"
  /\ notionKey = "Key"
  /\ store = StoreOf(MockPages)
  /\ dbProps = LoadedProps(store.properties)
  /\ pages = store.pages
  /\ pagesShared = useMock
  /\ notionIndex = NotionIndexOf(pages, notionKey)
  /\ joinType \in JoinTypes
  /\ mappings = <<Mapping("m1", "Amount", "Amount"), Mapping("m2", "Status", "Status")>>
  /\ onlyUpdateEmpty = FALSE
  /\ createMissingSelectOptions \in BOOLEAN
  /\ allowCreatePages \in BOOLEAN
  /\ dryRun = NULL
  /\ fresh = FALSE
  /\ NoRun
  /\ NoLoad

Next ==
  \/ onPreview
  \/ onExecute
  \/ ensureResolved
  \/ ensureRejected
  \/ callResolved
  \/ callRejected
  \/ delayElapsed
  \/ refreshResolved
  \/ refreshRejected
  \/ setDatabaseId
  \/ setJoinType

Spec == Init /\ [][Next]_vars

\* The session when every request is answered and every pacing delay ends:
\* fetch resolves or rejects, setTimeout fires.
Settle ==
  \/ ensureResolved
  \/ ensureRejected
  \/ callResolved
  \/ callRejected
  \/ delayElapsed
  \/ refreshResolved
  \/ refreshRejected

\* Sessions whose plan sequence is empty (inner join, no row matches a page),
\* or holds an update and a create, or a create beside record-only skips.
InitLive ==
  /\ useMock \in BOOLEAN
  /\ databaseId = MockDbId
  /\ excelRows \in
       { << [K |-> Str(A001), Amount |-> Str(<<"1", "0">>), Status |-> Str(New)],
            [K |-> Str(X999), Amount |-> Num(7), Status |-> Str(Open)] >>,
         << [K |-> Str(X999), Amount |-> Str(<<"x">>), Status |-> Str(Open)] >> }
  /\ excelKey = "K"
  /\ notionKey = "Key"
  /\ store = StoreOf(MockPages)
  /\ dbProps = LoadedProps(store.properties)
  /\ pages = store.pages
  /\ pagesShared = useMock
  /\ notionIndex = NotionIndexOf(pages, notionKey)
  /\ joinType \in {"inner", "outer"}
  /\ mappings = <<Mapping("m1", "Amount", "Amount"), Mapping("m2", "Status", "Status")>>
  /\ onlyUpdateEmpty = FALSE
  /\ createMissingSelectOptions = TRUE
  /\ allowCreatePages = TRUE
  /\ dryRun = NULL
  /\ fresh = FALSE
  /\ NoRun
  /\ NoLoad

NextLive ==
  \/ onPreview
  \/ onExecute
  \/ Settle

SpecLive == InitLive /\ [][NextLive]_vars /\ WF_vars(Settle)

(***************************************************************************)
(* The session from its start: a sheet uploaded and mapped, the database   *)
(* not loaded yet                                                          *)
(***************************************************************************)
InitLoad ==
  /\ useMock \in BOOLEAN
  /\ databaseId = MockDbId
  /\ excelRows = << [K |-> Str(A001), Amount |-> Str(<<"1", "0">>), Status |-> Str(New)],
                    [K |-> Str(X999), Amount |-> Num(7), Status |-> Str(Open)] >>
  /\ excelKey = "K"
  /\ notionKey = "Key"
  /\ store = StoreOf(MockPages)
  /\ dbProps = <<>>
  /\ pages = <<>>
  /\ pagesShared = FALSE
  /\ notionIndex = NotionIndexOf(pages, notionKey)
  /\ joinType = "left"
  /\ mappings = <<Mapping("m1", "Status", "Status")>>
  /\ onlyUpdateEmpty = FALSE
  /\ createMissingSelectOptions = TRUE
  /\ allowCreatePages = TRUE
  /\ dryRun = NULL
  /\ fresh = FALSE
  /\ NoRun
  /\ NoLoad

NextLoad ==
  \/ loadDatabase
  \/ retrieveResolved
  \/ retrieveRejected
  \/ queryResolved
  \/ queryRejected
  \/ typeDatabaseId
  \/ removeMapping
  \/ onPreview
  \/ onExecute
  \/ ensureResolved
  \/ ensureRejected
  \/ callResolved
  \/ callRejected
  \/ delayElapsed
  \/ refreshResolved
  \/ refreshRejected

SpecLoad == InitLoad /\ [][NextLoad]_vars

(***************************************************************************)
(* Page creation: sheets with a row no page matches, mappings that supply  *)
(* the title or leave it out, a schema that is loaded or not loaded        *)
(***************************************************************************)
TitleMappings ==
  { <<Mapping("m1", "Amount", "Amount")>>,
    <<Mapping("m1", "Amount", "Amount"), Mapping("m2", "K", "Key")>>,
    <<Mapping("m1", "Status", "Key")>> }

InitCreate ==
  /\ useMock \in BOOLEAN
  /\ databaseId = MockDbId
  /\ excelRows \in
       { << [K |-> Str(X999), Amount |-> Num(7), Status |-> Str(Open)] >>,
         << [K |-> Str(A001), Amount |-> Num(7), Status |-> Str(New)],
            [K |-> Str(<<" ">> \o X999), Amount |-> Str(<<>>), Status |-> Str(<<>>)] >> }
  /\ excelKey = "K"
  /\ notionKey = "Key"
  /\ store = StoreOf(MockPages)
  /\ dbProps \in {LoadedProps(store.properties), <<>>}
  /\ pages = store.pages
  /\ pagesShared = useMock
  /\ notionIndex = NotionIndexOf(pages, notionKey)
  /\ joinType \in {"left", "outer"}
  /\ mappings \in TitleMappings
  /\ onlyUpdateEmpty = FALSE
  /\ createMissingSelectOptions = FALSE
  /\ allowCreatePages = TRUE
  /\ dryRun = NULL
  /\ fresh = FALSE
  /\ NoRun
  /\ NoLoad

NextCreate ==
  \/ onPreview
  \/ onExecute
  \/ callResolved
  \/ callRejected
  \/ delayElapsed
  \/ refreshResolved
  \/ refreshRejected

SpecCreate == InitCreate /\ [][NextCreate]_vars

(***************************************************************************)
(* The codec on bounded inputs: one row whose cell V is mapped onto a      *)
(* property P of every type, beside a second mapping, previewed against a  *)
(* database that has a page of the row's key or has none                   *)
(***************************************************************************)
\* The types the schema can give P: the ones the codec names, one it does not
\* name, and "" for a schema that has no property P.
PropertyTypes ==
  {"title", "rich_text", "number", "email", "url", "phone_number", "select",
   "multi_select", "date", "checkbox", "status"}
TargetTypes == PropertyTypes \cup {"formula", ""}

IsoDay == <<"2", "0", "2", "4", "-", "0", "1", "-", "0", "2">>
LeapDay == <<"2", "0", "2", "4", "-", "0", "2", "-", "2", "9">>
\* Cells: blank and padded text, numerals, the words of the checkbox lists in
\* both cases, lists of names, dates, numbers, booleans; null, and an array.
CellValues ==
  { Str(<<>>), Str(<<" ">>), Str(<<" ">> \o Hello \o <<" ">>), Str(<<"x">>),
    Str(<<"1", "0">>), Str(<<"1">>), Str(<<"0">>), Str(<<" ">> \o <<"7">>),
    Str(<<"t", "r", "u", "e">>), Str(<<"f", "a", "l", "s", "e">>),
    Str(<<"y", "e", "s">>), Str(<<"y">>), Str(<<"n", "o">>), Str(<<"n">>),
    Str(<<"Y", "e", "s">>),
    Str(Red \o <<",", " ">> \o Blue), Str(Blue \o <<";">> \o Red \o <<",", ",">> \o Blue),
    Str(IsoDay), Str(LeapDay),
    Num(0), Num(1), Num(5), Num(0 - 3), Bool(TRUE), Bool(FALSE),
    NULL, Arr(<<Str(Red), Str(Blue)>>) }

\* The row: its cell V holds the value, or the row has no cell V.
CodecRows ==
  {[K |-> Str(X999), V |-> v, Amount |-> Num(7)] : v \in CellValues}
    \cup {[K |-> Str(X999), Amount |-> Num(7)]}

\* The pairs the model computes: an array is a value of multi_select only,
\* and a date is built from the strings every host parses alike.
Computed(type, row) ==
  IF "V" \notin DOMAIN row THEN TRUE
  ELSE /\ row.V.t = "array" => type = "multi_select"
       /\ (type = "date" /\ row.V.t = "string") =>
            (IsIsoDate(row.V.s) \/ ~HasDigit(row.V.s))

CodecSchema(type) ==
  <<[name |-> "Key", type |-> "title", options |-> UNDEFINED]>>
    \o (IF type = "" THEN <<>> ELSE <<[name |-> "P", type |-> type, options |-> UNDEFINED]>>)
    \o <<[name |-> "Amount", type |-> "number", options |-> UNDEFINED]>>

CodecPage == [id |-> <<"p", "9">>, properties |-> [Key |-> TitleValue(X999)]]

InitCodec ==
  /\ useMock = FALSE
  /\ databaseId = MockDbId
  /\ \E type \in TargetTypes, row \in CodecRows :
       /\ Computed(type, row)
       /\ excelRows = <<row>>
       /\ \E pgs \in {<<>>, <<CodecPage>>} :
            store = [id |-> MockDbId, properties |-> CodecSchema(type), pages |-> pgs]
  /\ excelKey = "K"
  /\ notionKey = "Key"
  /\ dbProps = LoadedProps(store.properties)
  /\ pages = store.pages
  /\ pagesShared = FALSE
  /\ notionIndex = NotionIndexOf(pages, notionKey)
  /\ joinType = "left"
  /\ mappings = <<Mapping("m1", "V", "P"), Mapping("m2", "Amount", "Amount")>>
  /\ onlyUpdateEmpty = FALSE
  /\ createMissingSelectOptions = TRUE
  /\ allowCreatePages = TRUE
  /\ dryRun = NULL
  /\ fresh = FALSE
  /\ NoRun
  /\ NoLoad

NextCodec == onPreview

SpecCodec == InitCodec /\ [][NextCodec]_vars

(***************************************************************************)
(* Runs against the remote store whose plans name different new options:   *)
(* a row that matches a page and names one status the schema lacks, a row  *)
(* that matches none and names another                                     *)
(***************************************************************************)
InitOptions ==
  /\ useMock = FALSE
  /\ databaseId = MockDbId
  /\ excelRows = << [K |-> Str(A001), Amount |-> Num(7), Status |-> Str(Hold)],
                    [K |-> Str(X999), Amount |-> Num(7), Status |-> Str(Open)] >>
  /\ excelKey = "K"
  /\ notionKey = "Key"
  /\ store = StoreOf(MockPages)
  /\ dbProps = LoadedProps(store.properties)
  /\ pages = store.pages
  /\ pagesShared = FALSE
  /\ notionIndex = NotionIndexOf(pages, notionKey)
  /\ joinType \in JoinTypes
  /\ mappings = <<Mapping("m1", "Amount", "Amount"), Mapping("m2", "Status", "Status")>>
  /\ onlyUpdateEmpty = FALSE
  /\ createMissingSelectOptions = TRUE
  /\ allowCreatePages \in BOOLEAN
  /\ dryRun = NULL
  /\ fresh = FALSE
  /\ NoRun
  /\ NoLoad

SpecOptions == InitOptions /\ [][Next]_vars

(***************************************************************************)
(* Properties of the join planner (checked under SpecPlan)                 *)
(***************************************************************************)
\* The key sets A (source index) and B (record index) of the current state,
\* and the plans of the preview.
SourceKeys == SeqToSet(MapKeys(excelIndex(excelRows, excelKey)))
RecordKeys == SeqToSet(MapKeys(notionIndex))
Previewed == dryRun # NULL
PlanCount == Len(dryRun.a)
PlanAt(i) == dryRun.a[i]
PlanKeys == {PlanAt(i).key : i \in 1..PlanCount}
PlansOf(k) == {i \in 1..PlanCount : PlanAt(i).key = k}
SourceRowOf(k) == MapGet(excelIndex(excelRows, excelKey), k)
RecordOf(k) == MapGet(notionIndex, k)

\* C1: the keys the planner iterates are exactly A for left, B for right,
\* A \cap B for inner and A \cup B for outer, and the number of plans is the
\* size of that set.
C1_Universe ==
  CASE joinType = "left" -> SourceKeys
    [] joinType = "right" -> RecordKeys
    [] joinType = "inner" -> SourceKeys \cap RecordKeys
    [] joinType = "outer" -> SourceKeys \cup RecordKeys
C1_KeyUniverse ==
  Previewed => /\ PlanKeys = C1_Universe
               /\ PlanCount = Cardinality(C1_Universe)
C1_Witness ==
  /\ Previewed
  /\ joinType = "inner"
  /\ SourceKeys \ RecordKeys # {}
  /\ RecordKeys \ SourceKeys # {}
  /\ SourceKeys \cap RecordKeys # {}

\* C2: the plans hold exactly one plan for each key of the selected universe
\* and none for any other key, in each of the three cases (both present,
\* source only, record only).
C2_OnePlanPerKey ==
  Previewed =>
    /\ \A k \in C1_Universe : Cardinality(PlansOf(k)) = 1
    /\ \A i \in 1..PlanCount : PlanAt(i).key \in C1_Universe
C2_Witness ==
  /\ Previewed
  /\ joinType = "outer"
  /\ \E k \in PlanKeys : k \in SourceKeys /\ k \in RecordKeys
  /\ \E k \in PlanKeys : k \in SourceKeys /\ k \notin RecordKeys
  /\ \E k \in PlanKeys : k \notin SourceKeys /\ k \in RecordKeys

\* A mapping stages a change for a matched key when it names a property, the
\* policy does not exclude the property and the cell has an encoding.
Empties == {NULL, Str(<<>>)}
Stages(m, k) ==
  /\ m.notionProperty # ""
  /\ onlyUpdateEmpty =>
       getNotionPropertyPlainValue(RecordOf(k).properties, m.notionProperty) \in Empties
  /\ buildNotionPropertyValue(TargetType(dbProps, m.notionProperty),
                              Get(SourceRowOf(k), m.excelColumn)) # UNDEFINED
MappingSet == SeqToSet(mappings)

\* C3: an update plan never has empty changes; a key present in both indexes
\* for which no mapping stages a change is a skip plan with reason
\* "No changes computed".
C3_UpdateHasChanges ==
  Previewed =>
    \A i \in 1..PlanCount :
      LET plan == PlanAt(i) IN
        /\ plan.action = "update" => Keys(plan.changes) # {}
        /\ (plan.key \in SourceKeys \cap RecordKeys
            /\ \A m \in MappingSet : ~Stages(m, plan.key))
           => plan.action = "skip" /\ plan.reason = "No changes computed"
C3_Witness ==
  /\ Previewed
  /\ \E i \in 1..PlanCount : PlanAt(i).action = "update"
  /\ \E i \in 1..PlanCount :
       /\ PlanAt(i).key \in SourceKeys \cap RecordKeys
       /\ PlanAt(i).action = "skip"
       /\ PlanAt(i).reason = "No changes computed"

\* C4: a create plan is only for a key of the source index that is not in the
\* record index, only under left or outer, only with allowCreatePages; with
\* allowCreatePages false there is no create plan and a source-only key is a
\* skip plan with reason "No matching Notion page".
C4_CreateOnlyWhenAllowed ==
  Previewed =>
    \A i \in 1..PlanCount :
      LET plan == PlanAt(i) IN
        /\ plan.action = "create" =>
             /\ plan.key \in SourceKeys \ RecordKeys
             /\ joinType \in {"left", "outer"}
             /\ allowCreatePages
        /\ (~allowCreatePages /\ plan.key \in SourceKeys \ RecordKeys) =>
             plan.action = "skip" /\ plan.reason = "No matching Notion page"
C4_Witness ==
  /\ Previewed
  /\ ~allowCreatePages
  /\ joinType = "outer"
  /\ \E i \in 1..PlanCount :
       PlanAt(i).key \in SourceKeys \ RecordKeys /\ PlanAt(i).action = "skip"

\* C5: with onlyUpdateEmpty, the changes of an update plan hold no property
\* whose current value decodes to something other than null or ""; a matched
\* record whose mapped properties are all non-empty is a skip plan with
\* reason "No changes computed".
C5_OnlyUpdateEmpty ==
  (Previewed /\ onlyUpdateEmpty) =>
    \A i \in 1..PlanCount :
      LET plan == PlanAt(i) IN
        /\ plan.action = "update" =>
             \A p \in Keys(plan.changes) :
               getNotionPropertyPlainValue(plan.page.properties, p) \in Empties
        /\ (plan.key \in SourceKeys \cap RecordKeys
            /\ \A m \in MappingSet :
                 getNotionPropertyPlainValue(RecordOf(plan.key).properties,
                                             m.notionProperty) \notin Empties)
           => plan.action = "skip" /\ plan.reason = "No changes computed"
C5_Witness ==
  /\ Previewed
  /\ onlyUpdateEmpty
  /\ \E i \in 1..PlanCount :
       /\ PlanAt(i).action = "update"
       /\ \E m \in MappingSet :
            /\ m.notionProperty # ""
            /\ m.notionProperty \notin Keys(PlanAt(i).changes)
            /\ getNotionPropertyPlainValue(PlanAt(i).page.properties,
                                           m.notionProperty) \notin Empties
            /\ buildNotionPropertyValue(TargetType(dbProps, m.notionProperty),
                                        Get(PlanAt(i).excel, m.excelColumn)) # UNDEFINED
  /\ \E i \in 1..PlanCount :
       /\ PlanAt(i).action = "skip"
       /\ PlanAt(i).key \in SourceKeys \cap RecordKeys
       /\ \A m \in MappingSet :
            getNotionPropertyPlainValue(RecordOf(PlanAt(i).key).properties,
                                        m.notionProperty) \notin Empties

\* C7 as stated: the changes of an update plan hold no property whose encoded
\* source value equals the record's current value (the mutation set is
\* minimal).
C7_MinimalChanges ==
  Previewed =>
    \A i \in 1..PlanCount :
      PlanAt(i).action = "update" =>
        \A p \in Keys(PlanAt(i).changes) :
          ~SameAsCurrent(MapGet(PlanAt(i).changes, p), PlanAt(i).page.properties, p)

\* C7 as amended: for a key present in both indexes, changes holds every
\* mapped property whose cell has an encoding and that the onlyUpdateEmpty
\* policy does not exclude, equal to the current value or not; the key is a
\* skip plan only when no mapping stages a change.
StagedProperties(k) == {m.notionProperty : m \in {x \in MappingSet : Stages(x, k)}}
C7_AllStagedChanges ==
  Previewed =>
    \A i \in 1..PlanCount :
      LET plan == PlanAt(i) IN
        plan.key \in SourceKeys \cap RecordKeys =>
          /\ plan.action = "update" => Keys(plan.changes) = StagedProperties(plan.key)
          /\ plan.action = "skip" <=> StagedProperties(plan.key) = {}
C7_Witness ==
  /\ Previewed
  /\ \E i \in 1..PlanCount :
       /\ PlanAt(i).action = "update"
       /\ \A p \in Keys(PlanAt(i).changes) :
            SameAsCurrent(MapGet(PlanAt(i).changes, p), PlanAt(i).page.properties, p)

(***************************************************************************)
(* Properties of the plan executor (checked under Spec)                    *)
(***************************************************************************)
\* The record-mutation requests of the run, in the order issued, and the
\* plans of the run that are update or create plans, in plan order.
IsMutation(c) == c.op \in {"updatePage", "createPage"}
MutationCalls == SelectSeq(calls, IsMutation)
RECURSIVE DispatchableFrom(_)
DispatchableFrom(i) ==
  IF i > Len(runPlans) THEN <<>>
  ELSE (IF runPlans[i].action \in {"update", "create"} THEN <<i>> ELSE <<>>)
       \o DispatchableFrom(i + 1)
Dispatchable == DispatchableFrom(1)
IsRecordOnly(plan) == "excel" \notin DOMAIN plan
RequestOf(plan, c) ==
  IF plan.action = "update"
  THEN c.op = "updatePage" /\ c.id = plan.page.id /\ c.body = plan.changes
  ELSE c.op = "createPage" /\ c.body = plan.changes

\* C6: a key that only the record index holds is, under right and outer, one
\* skip plan with reason "No matching Excel row" and no changes; a run issues
\* no update and no create request for a record-only plan, and no update
\* request for the page of one.
C6_RecordOnlySkipped ==
  /\ (Previewed /\ fresh /\ joinType \in {"right", "outer"}) =>
       \A k \in RecordKeys \ SourceKeys :
         /\ Cardinality(PlansOf(k)) = 1
         /\ \A i \in PlansOf(k) :
              /\ PlanAt(i).action = "skip"
              /\ PlanAt(i).reason = "No matching Excel row"
              /\ "changes" \notin DOMAIN PlanAt(i)
  /\ \A c \in 1..Len(calls) :
       IsMutation(calls[c]) =>
         /\ ~IsRecordOnly(runPlans[calls[c].plan])
         /\ \A j \in 1..Len(runPlans) :
              (IsRecordOnly(runPlans[j]) /\ calls[c].op = "updatePage")
                => runPlans[j].page.id # calls[c].id
C6_Witness ==
  /\ runStatus = "done"
  /\ \E j \in 1..Len(runPlans) : IsRecordOnly(runPlans[j])
  /\ \E c \in 1..Len(calls) : calls[c].op = "updatePage" /\ calls[c].result = "ok"
  /\ \E c \in 1..Len(calls) : calls[c].op = "createPage" /\ calls[c].result = "ok"

\* C8: the run status is idle until the first run starts and never again; it
\* changes only to running when a run starts, and from running only to done
\* or to error; a run that starts makes it running.
C8_StatusStep ==
  /\ runStatus' # runStatus =>
       \/ runStatus' = "running" /\ runs' = runs + 1
       \/ runStatus = "running" /\ runStatus' \in {"done", "error"} /\ runs' = runs
  /\ runs' # runs => runs' = runs + 1 /\ runStatus # "running" /\ runStatus' = "running"
C8_RunStatus ==
  /\ [](runStatus \in {"idle", "running", "done", "error"})
  /\ [](runStatus = "idle" <=> runs = 0)
  /\ [][C8_StatusStep]_vars
C8_Witness ==
  /\ runs = MaxRuns
  /\ runStatus = "error"
  /\ \E c \in 1..Len(calls) : calls[c].result = "ok"

\* C9: the record-mutation requests of a run are, in order, the requests of a
\* prefix of its update and create plans, each the request of its plan; at
\* most one request is unanswered, and it is the last one issued; a run that
\* is done has issued the request of every update and create plan.
C9_SerialDispatch ==
  /\ Cardinality(inflight) <= 1
  /\ \A i \in inflight : i = Len(calls) /\ calls[i].result = "pending"
  /\ \A i \in 1..Len(calls) : calls[i].result = "pending" => i \in inflight
  /\ Len(MutationCalls) <= Len(Dispatchable)
  /\ \A j \in 1..Len(MutationCalls) :
       /\ MutationCalls[j].plan = Dispatchable[j]
       /\ RequestOf(runPlans[Dispatchable[j]], MutationCalls[j])
  /\ runStatus = "done" => Len(MutationCalls) = Len(Dispatchable)
C9_Witness ==
  /\ runStatus = "done"
  /\ Len(MutationCalls) = 2
  /\ Len(runPlans) = 3
  /\ MutationCalls[1].op = "updatePage"
  /\ MutationCalls[2].op = "createPage"

\* What the store holds for a value a request sent.
StoredForm(built) == IF runEnv.useMock THEN built ELSE RemoteValue(built)
Committed(c) ==
  IF c.op = "updatePage"
  THEN \E p \in 1..Len(store.pages) :
         /\ store.pages[p].id = c.id
         /\ \A k \in Keys(c.body) :
              /\ k \in DOMAIN store.pages[p].properties
              /\ store.pages[p].properties[k] = StoredForm(MapGet(c.body, k))
  ELSE \E p \in 1..Len(store.pages) :
         /\ DOMAIN store.pages[p].properties = Keys(c.body)
         /\ \A k \in Keys(c.body) :
              store.pages[p].properties[k] = StoredForm(MapGet(c.body, k))

\* C10: a rejected request is the last request of its run: the run is over
\* with status error and the error of the request as its message, nothing is
\* in flight and no plan was requested twice; the step that ends a run in
\* error and every step while the status is error issue no request and leave
\* the store alone, and every mutation answered before is still in the store.
C10_Fault ==
  \A i \in 1..Len(calls) :
    calls[i].result = "rejected" =>
      /\ i = Len(calls)
      /\ runStatus = "error" /\ pc = "idle" /\ inflight = {}
      /\ runError # NULL /\ runError = calls[i].error
      /\ \A j \in 1..(i - 1) :
           /\ calls[j].result = "ok"
           /\ IsMutation(calls[j]) => calls[j].plan # calls[i].plan /\ Committed(calls[j])
C10_FaultStep ==
  (runStatus' = "error" /\ (runStatus = "error" \/ runStatus = "running")) =>
    /\ store' = store
    /\ Len(calls') = Len(calls)
C10_StopOnRejection ==
  /\ [](runStatus = "error" => \E i \in 1..Len(calls) : calls[i].result = "rejected")
  /\ []C10_Fault
  /\ [][C10_FaultStep]_vars
C10_Witness ==
  /\ runStatus = "error"
  /\ Len(calls) = 2
  /\ calls[1].op = "updatePage" /\ calls[1].result = "ok"
  /\ calls[2].op = "createPage" /\ calls[2].result = "rejected"
  /\ Len(runPlans) = 3

(***************************************************************************)
(* Properties of the option reconciler (checked under Spec)                *)
(***************************************************************************)
\* The option names the changes of the update and create plans give to a
\* property of the schema the run holds, with the plan that names each.
OptionTypes == {"select", "multi_select", "status"}
Started == runs > 0
NamesIn(plan, propName) ==
  IF plan.action \in {"update", "create"} /\ MapHas(plan.changes, propName)
  THEN LET val == MapGet(plan.changes, propName)
       IN  CASE "select" \in DOMAIN val ->
                  IF val.select = NULL THEN {} ELSE {val.select.name} \ {<<>>}
             [] "status" \in DOMAIN val -> {val.status.name} \ {<<>>}
             [] "multi_select" \in DOMAIN val ->
                  {val.multi_select.a[i].name : i \in 1..Len(val.multi_select.a)}
             [] OTHER -> {}
  ELSE {}
OptionProps == {runEnv.dbProps[i].name : i \in 1..Len(runEnv.dbProps)}
SchemaOf(propName) == FindProp(runEnv.dbProps, propName)
Existing(propName) ==
  {SchemaOf(propName).options.a[i].name : i \in 1..Len(SchemaOf(propName).options.a)}
Referenced(propName) ==
  IF SchemaOf(propName).type \in OptionTypes
  THEN UNION {NamesIn(runPlans[i], propName) : i \in 1..Len(runPlans)}
  ELSE {}
Missing(propName) == Referenced(propName) \ Existing(propName)
SomeOptionMissing == \E propName \in OptionProps : Missing(propName) # {}
Patches == {i \in 1..Len(calls) : calls[i].op = "updateDatabase"}
Mutations == {i \in 1..Len(calls) : IsMutation(calls[i])}

\* C11: a run with option creation enabled whose plans name a missing option
\* issues exactly one schema patch, as its first request; no record mutation
\* is issued before the patch is answered, and none at all when it is
\* rejected, in which case the run ends in error.
C11_PatchOnce ==
  (Started /\ createMissingSelectOptions) =>
    (SomeOptionMissing =>
       /\ Cardinality(Patches) = 1
       /\ Patches = {1}
       /\ Mutations # {} => calls[1].result = "ok"
       /\ calls[1].result = "rejected" => runStatus = "error" /\ Mutations = {})

\* The first plan of the run that gives a name to a property.
FirstSeen(propName, name) ==
  CHOOSE i \in 1..Len(runPlans) :
    /\ name \in NamesIn(runPlans[i], propName)
    /\ \A j \in 1..(i - 1) : name \notin NamesIn(runPlans[j], propName)
SentOptions(c, propName) == MapGet(calls[c].body, propName).options.a
Appended(c, propName) ==
  SubSeq(SentOptions(c, propName), Len(SchemaOf(propName).options.a) + 1,
         Len(SentOptions(c, propName)))

\* C12: a schema patch names exactly the properties that miss an option; the
\* list it sends for one is the property's option list as it was, followed by
\* the missing names, each once, in the order the plans first name them.
C12_OptionsAppended ==
  \A c \in Patches :
    /\ Keys(calls[c].body) = {propName \in OptionProps : Missing(propName) # {}}
    /\ \A propName \in Keys(calls[c].body) :
         LET old == SchemaOf(propName).options.a
             sent == SentOptions(c, propName)
             new == Appended(c, propName)
         IN  /\ MapGet(calls[c].body, propName).type = SchemaOf(propName).type
             /\ Len(sent) > Len(old)
             /\ SubSeq(sent, 1, Len(old)) = old
             /\ {new[i].name : i \in 1..Len(new)} = Missing(propName)
             /\ \A i, j \in 1..Len(new) :
                  i < j => /\ new[i].name # new[j].name
                           /\ FirstSeen(propName, new[i].name)
                                <= FirstSeen(propName, new[j].name)
C12_Witness ==
  /\ Patches = {1}
  /\ calls[1].result = "ok"
  /\ Len(Appended(1, "Status")) = 2
  /\ Len(MutationCalls) = 3
  /\ MutationCalls[1].body # <<>> /\ MutationCalls[3].body # <<>>
  /\ NamesIn(runPlans[1], "Status") = NamesIn(runPlans[3], "Status")
  /\ runStatus = "done"

\* C13: a run whose plans name only options the schema has issues no schema
\* patch, and neither its start nor any of its steps changes the schema of
\* the store or of the session.
C13_NoPatchStep ==
  (Started' /\ ~SomeOptionMissing') =>
    /\ store'.properties = store.properties
    /\ dbProps' = dbProps
C13_NoPatchNeeded ==
  /\ []((Started /\ ~SomeOptionMissing) => Patches = {})
  /\ [][C13_NoPatchStep]_vars
C13_Witness ==
  /\ Started /\ createMissingSelectOptions
  /\ ~SomeOptionMissing
  /\ Referenced("Status") # {}
  /\ runStatus = "done"
  /\ Mutations # {}

(***************************************************************************)
(* Properties of a run and its surroundings (checked under Spec)           *)
(***************************************************************************)
\* What a plan sequence dispatches: per plan its key and action, and for an
\* update the changes it sends.
PlanHeads(plans) ==
  [i \in 1..Len(plans) |->
     [key |-> plans[i].key, action |-> plans[i].action,
      changes |-> IF plans[i].action = "update" THEN plans[i].changes ELSE <<>>]]

\* C14: the plans a run dispatches are the plans of the inputs as they are
\* when the run starts, whatever changed since the last preview.
C14_StartStep == runs' = runs + 1 => PlanHeads(runPlans') = PlanHeads(CurrentPlans)
C14_NoStalePlan == [][C14_StartStep]_vars

\* C15: a run that is done has issued one query, as its last request and
\* after every dispatch, and the step that ends it leaves in pages the record
\* collection of the store.
Queries == {i \in 1..Len(calls) : calls[i].op = "queryDatabase"}
C15_DoneStep == (runStatus = "running" /\ runStatus' = "done") => pages' = store'.pages
C15_Refetch ==
  /\ [](runStatus = "done" =>
          /\ Queries = {Len(calls)}
          /\ calls[Len(calls)].result = "ok")
  /\ [][C15_DoneStep]_vars

\* p is completed / total * 100 rounded to the nearest integer, a half upwards.
IsRounded(p, completed, total) ==
  /\ 2 * p * total <= 200 * completed + total
  /\ 200 * completed + total < 2 * (p + 1) * total
ProgressIs(completed, total) ==
  /\ progress \in 0..100
  /\ IF completed = 0 THEN progress = 0 ELSE IsRounded(progress, completed, total)
C16_ProgressStep == runs' = runs => progress' >= progress

\* The plans the loop of the run is through with: a plan that sends a request
\* once the request is answered, any other plan once the loop has reached it.
Answered_ok(i) == \E c \in 1..Len(calls) : calls[c].plan = i /\ calls[c].result = "ok"
Dispatched == {i \in 1..Len(runPlans) : runPlans[i].action \in {"update", "create"}}
Passed ==
  {i \in 1..Len(runPlans) : IF i \in Dispatched THEN Answered_ok(i) ELSE i <= runIdx}

\* C16 as stated: progress is an integer of 0..100 that does not decrease in
\* a run and is the rounded share of the dispatched (update and create) plans
\* that are answered among the plans to dispatch.
C16_ProgressOfDispatched ==
  /\ [](Started => ProgressIs(Cardinality(Passed \cap Dispatched), Cardinality(Dispatched)))
  /\ [][C16_ProgressStep]_vars

\* C16 as the code has it: progress is an integer of 0..100 that does not
\* decrease in a run and is the rounded share of the plans the loop is through
\* with, skip plans included, among all plans of the sequence.
C16_ProgressOfPlans ==
  /\ [](progress \in 0..100)
  /\ [](Started => ProgressIs(Cardinality(Passed), Len(runPlans)))
  /\ [][C16_ProgressStep]_vars
C16_Witness ==
  /\ runStatus = "running"
  /\ Len(runPlans) = 2
  /\ Dispatched = {1}
  /\ Passed = {1}
  /\ progress = 50

\* C17: the pacing delays of a run lie between its requests: none is started
\* before the first record mutation is issued, none after the last one, and a
\* run that is done has had one delay less than it issued record mutations
\* (none when it issued at most one).
C17_PacingBetweenRequests ==
  Started =>
    /\ Mutations = {} => delays = 0
    /\ delays <= Len(MutationCalls)
    /\ runStatus = "done" =>
         delays = (IF Len(MutationCalls) <= 1 THEN 0 ELSE Len(MutationCalls) - 1)

(***************************************************************************)
(* Properties of validation and loading (checked under SpecLoad)           *)
(***************************************************************************)
\* A database id, both key columns and a mapping are there.
HasDatabaseId == Trim(databaseId) # <<>>
ValidConfig == HasDatabaseId /\ excelKey # "" /\ notionKey # "" /\ mappings # <<>>
SnapshotKept == dbProps' = dbProps /\ pages' = pages /\ store' = store

\* C18: a load invoked without a database id, and an execution invoked
\* without a database id, a key column or a mapping, issue no request, leave
\* the store and the loaded snapshot as they are and surface an error.
C18_Step ==
  /\ (loads' = loads + 1 /\ ~HasDatabaseId) =>
       loadCalls' = loadCalls /\ loadPc' = "idle" /\ loadError' # NULL /\ SnapshotKept
  /\ (runs' = runs + 1 /\ ~ValidConfig) =>
       calls' = <<>> /\ pc' = "idle" /\ runError' # NULL /\ SnapshotKept
C18_Validated == [][C18_Step]_vars

\* The schema a load was answered with, as the session keeps it.
SchemaLoaded(props, db) ==
  /\ Len(props) = Len(db)
  /\ \A i \in 1..Len(db) :
       /\ props[i].name = db[i].name /\ props[i].type = db[i].type
       /\ props[i].options = (IF IsNullish(db[i].options) THEN Arr(<<>>) ELSE db[i].options)
IsPrefix(p, q) == Len(p) <= Len(q) /\ SubSeq(q, 1, Len(p)) = p

\* C19: when a load returns without error, the schema of the session is the
\* one its retrieve was answered with and the pages are the answer to its
\* query, records of the store and nothing else; when it returns with an
\* error, the session has no schema and no pages.
C19_LoadStep ==
  (loadPc # "idle" /\ loadPc' = "idle") =>
    IF loadError' = NULL
    THEN /\ SchemaLoaded(dbProps', loadEnv'.db)
         /\ IsPrefix(pages', store.pages)
         /\ (loadEnv.useMock \/ Len(store.pages) <= PageSize) => pages' = store.pages
         /\ loadCalls'[1].op = "retrieveDatabase" /\ loadCalls'[1].result = "ok"
         /\ loadCalls'[2].op = "queryDatabase" /\ loadCalls'[2].result = "ok"
         /\ Len(loadCalls') = 2
    ELSE dbProps' = <<>> /\ pages' = <<>>
RecordRequests(sent) == SelectSeq(sent, LAMBDA c : c.op \in {"updatePage", "createPage"})
KeyText(pg) ==
  IF "Key" \in DOMAIN pg.properties /\ Len(pg.properties.Key.title.a) > 0
  THEN pg.properties.Key.title.a[1].text.content ELSE <<>>
RecordsOf(key) == {i \in 1..Len(store.pages) : KeyText(store.pages[i]) = key}
Again ==
  /\ earlier # <<>>
  /\ earlier[Len(earlier)].kept
  /\ earlier[Len(earlier)].status = "done"
  /\ runStatus = "done"

\* C26: a run that starts from the plans of the run before it, with no preview
\* in between, sends the update and create requests that run sent, in the
\* same order, and when both runs are done the store holds at least two
\* records for the key of each create plan.
C26_SameRequests ==
  Again =>
    /\ RecordRequests(Requests(calls)) = RecordRequests(earlier[Len(earlier)].sent)
    /\ \A n \in 1..Len(calls) :
         calls[n].op = "createPage" =>
           Cardinality(RecordsOf(runPlans[calls[n].plan].key)) >= 2
C26_Witness ==
  /\ Again
  /\ \E n, m \in 1..Len(calls) :
       /\ calls[n].op = "createPage" /\ calls[m].op = "updatePage"
       /\ Cardinality(RecordsOf(runPlans[calls[n].plan].key)) = 2

\* C27: with the in-memory store, when a run that created a record is done,
\* the record index holds the key of every record the run created, and a
\* preview of the same inputs plans no create for that key.
CreatedKeys ==
  {runPlans[calls[n].plan].key :
     n \in {m \in 1..Len(calls) : calls[m].op = "createPage" /\ calls[m].result = "ok"}}
C27_CreatedIndexed ==
  (runStatus = "done" /\ runEnv.useMock) =>
    \A k \in CreatedKeys :
      /\ MapHas(notionIndex, k)
      /\ \A i \in 1..Len(CurrentPlans) :
           CurrentPlans[i].key = k => CurrentPlans[i].action # "create"

\* The option names a request sends for a property ({} when it sends none).
NamesSent(request, propName) ==
  IF request.op = "updateDatabase" /\ MapHas(request.body, propName)
  THEN {o.name : o \in SeqToSet(MapGet(request.body, propName).options.a)}
  ELSE {}
PatchedProps(request) == IF request.op = "updateDatabase" THEN Keys(request.body) ELSE {}

\* C28: the option list a schema patch sends for a property holds every option
\* an earlier patch of the session sent for that property.
C28_OptionsKept ==
  \A n \in 1..Len(calls) : \A propName \in PatchedProps(calls[n]) :
    \A r \in 1..Len(earlier) : \A q \in 1..Len(earlier[r].sent) :
      NamesSent(earlier[r].sent[q], propName) \subseteq NamesSent(calls[n], propName)

\* C25: the pages a load or the refresh of a run leaves in the session hold
\* every record of the store's collection, however many responses that takes.
Fetched ==
  \/ loadPc = "query" /\ loadPc' = "idle" /\ loadError' = NULL
  \/ pc = "refresh" /\ runStatus' = "done"
C25_Step ==
  Fetched => \A i \in 1..Len(store.pages) :
               \E j \in 1..Len(pages') : pages'[j].id = store.pages[i].id
C25_AllRecords == [][C25_Step]_vars

(***************************************************************************)
(* Properties of the key indexes (checked under SpecPlan)                  *)
(***************************************************************************)
\* The key of a row and of a page: the trimmed text of the key cell, the
\* empty string for a cell or a value that is not there.
RowKey(row) ==
  IF excelKey \in DOMAIN row /\ ~IsNullish(row[excelKey])
  THEN Trim(StringOf(row[excelKey])) ELSE <<>>
PageKey(pg) ==
  LET plain == getNotionPropertyPlainValue(pg.properties, notionKey)
  IN  IF plain = NULL THEN <<>> ELSE Trim(StringOf(plain))
LastWith(keyOf(_), items, k) ==
  items[CHOOSE i \in 1..Len(items) :
          keyOf(items[i]) = k /\ \A j \in (i + 1)..Len(items) : keyOf(items[j]) # k]
IndexOn(index, keyOf(_), items) ==
  /\ SeqToSet(MapKeys(index)) = {keyOf(items[i]) : i \in 1..Len(items)} \ {<<>>}
  /\ Cardinality(SeqToSet(MapKeys(index))) = Len(index)
  /\ \A k \in SeqToSet(MapKeys(index)) : MapGet(index, k) = LastWith(keyOf, items, k)

\* C20: the keys of each index are the trimmed, non-empty keys of its rows,
\* each once, and each key maps to the last row or page that has it.
C20_Indexes ==
  /\ IndexOn(excelIndex(excelRows, excelKey), RowKey, excelRows)
  /\ IndexOn(notionIndex, PageKey, pages)
C20_Witness ==
  /\ Previewed
  /\ Len(excelRows) = 2
  /\ RowKey(excelRows[1]) = RowKey(excelRows[2])
  /\ excelRows[1] # excelRows[2]
  /\ RowKey(excelRows[1]) # <<>>
  /\ \E i, j \in 1..Len(pages) : i < j /\ PageKey(pages[i]) = PageKey(pages[j])
  /\ Len(notionIndex) < Len(pages)

(***************************************************************************)
(* Properties of page creation (checked under SpecCreate)                  *)
(***************************************************************************)
\* The calls a step issues and the plans they are issued for, as the plans
\* are before the step.
Sent ==
  IF runs' # runs THEN calls' ELSE SubSeq(calls', Len(calls) + 1, Len(calls'))
PlansBefore == IF runs' # runs THEN dryRun.a ELSE runPlans
TitlesOf(schema) == {schema[i].name : i \in {j \in 1..Len(schema) : schema[j].type = "title"}}
TitleFrom(key) == [title |-> Arr(<<[type |-> "text", text |-> [content |-> key]]>>)]

C21_Step ==
  \A n \in 1..Len(Sent) :
    Sent[n].op = "createPage" =>
      LET plan == PlansBefore[Sent[n].plan]
          titles == TitlesOf(runEnv'.dbProps)
          lacking == {t \in titles : ~MapHas(plan.changes, t)}
      IN  /\ \A k \in Keys(plan.changes) : MapGet(Sent[n].body, k) = MapGet(plan.changes, k)
          /\ Keys(Sent[n].body) = Keys(plan.changes) \cup lacking
          /\ \A t \in lacking : MapGet(Sent[n].body, t) = TitleFrom(plan.key)

\* C21: the createPage request of a create plan carries the plan's changes
\* unchanged and, when the schema has a title property the changes have no
\* value for, that property encoded as a title from the plan's key; a title
\* the mappings supplied is sent as it is.
C21_TitleOnCreate == [][C21_Step]_vars
C21_Witness ==
  /\ runStatus = "done"
  /\ \A i \in 1..Len(mappings) : mappings[i].notionProperty # "Key"
  /\ \E n \in 1..Len(calls) :
       /\ calls[n].op = "createPage" /\ calls[n].result = "ok"
       /\ MapHas(calls[n].body, "Key")
       /\ MapGet(calls[n].body, "Key") = TitleFrom(X999)

(***************************************************************************)
(* Properties of the codec (checked under SpecCodec)                       *)
(***************************************************************************)
\* The cell, the type the schema gives P, the plan of the row's key and what
\* it stages for P.
Cell == Get(excelRows[1], "V")
CellTypes == {dbProps[i].type : i \in {j \in 1..Len(dbProps) : dbProps[j].name = "P"}}
CellType == IF CellTypes = {} THEN "" ELSE CHOOSE t \in CellTypes : TRUE
CodecPlan == dryRun.a[1]
Staged == MapHas(CodecPlan.changes, "P")
Built == MapGet(CodecPlan.changes, "P")
Blank_ == Str(<<>>)

\* The value read back from what was built, and equality of a decoded value
\* with a cell as values of the type: text with the cell's text, a number
\* with the cell's number, a list of names with the cell's names as a set, a
\* checkbox with the cell's truth.
Decoded == getNotionPropertyPlainValue([P |-> Built], "P")
NamesOfText(s) == {n.name : n \in SeqToSet(NonEmptyNames(SplitCsv(s)))}
NamesOfCell(v) ==
  IF v.t = "array" THEN {StringOf(v.a[i]) : i \in 1..Len(v.a)}
  ELSE IF v.t = "string" THEN NamesOfText(v.s) ELSE {}
TrueWords ==
  {Bool(TRUE), Str(<<"t", "r", "u", "e">>), Str(<<"1">>), Num(1), Str(<<"y", "e", "s">>),
   Str(<<"y">>)}
FalseWords ==
  {Bool(FALSE), Str(<<"f", "a", "l", "s", "e">>), Str(<<"0">>), Num(0), Str(<<"n", "o">>),
   Str(<<"n">>), Str(<<>>)}
NaturalEq(type, d, v) ==
  /\ d # NULL
  /\ CASE type = "number" -> d = NumberOf(v)
       [] type = "multi_select" -> d.t = "string" /\ NamesOfText(d.s) = NamesOfCell(v)
       [] type = "checkbox" -> (d = Str(<<"t", "r", "u", "e">>)) <=> (v \in TrueWords)
       [] OTHER -> d = Str(StringOf(v))

\* C22: for every type the codec names and every cell it encodes, decoding
\* the encoded value gives the cell back, as a value of the type.
C22_RoundTrip ==
  (Previewed /\ CellType \in PropertyTypes /\ Staged) =>
    NaturalEq(CellType, Decoded, Cell)

\* C23 (as stated): a blank cell is encoded and staged whatever the type of
\* the property; null and undefined stage nothing.
C23_BlankEncoded ==
  Previewed =>
    /\ Cell = Blank_ => Staged
    /\ IsNullish(Cell) => ~Staged

\* C23: a blank cell is encoded and staged for every type but date, for which
\* it is no date and stages nothing; null and undefined stage nothing for any
\* type.
C23_BlankEncodedButDate ==
  Previewed =>
    /\ Cell = Blank_ => (Staged <=> CellType # "date")
    /\ IsNullish(Cell) => ~Staged
C23_Witness ==
  /\ Previewed
  /\ Cell = Blank_
  /\ CellType = "number"
  /\ Staged
  /\ Built = [number |-> Num(0)]

\* The cells that are finite numbers and the cells that are dates.
FiniteCells ==
  { Str(<<>>), Str(<<" ">>), Str(<<"1", "0">>), Str(<<"1">>), Str(<<"0">>),
    Str(<<" ">> \o <<"7">>), Num(0), Num(1), Num(5), Num(0 - 3), Bool(TRUE), Bool(FALSE) }
DateCells ==
  { Str(IsoDay), Str(LeapDay), Num(0), Num(1), Num(5), Num(0 - 3), Bool(TRUE), Bool(FALSE) }
Unencodable(type, v) ==
  \/ v = NULL \/ v = UNDEFINED
  \/ type = "number" /\ v \notin FiniteCells
  \/ type = "date" /\ v \notin DateCells
  \/ type = "checkbox" /\ v \notin TrueWords \cup FalseWords
FieldOf(type) == IF type \in PropertyTypes THEN type ELSE "rich_text"

\* C24: encoding gives undefined for null and undefined, for a number that is
\* not finite, for a date that does not parse and for a checkbox word of
\* neither list, and a value of the type in every other case; an undefined
\* result leaves the field out of the plan, which keeps its other field.
C24_UndefinedCases ==
  Previewed =>
    /\ Len(dryRun.a) = 1
    /\ CodecPlan.action \in {"update", "create"}
    /\ MapHas(CodecPlan.changes, "Amount")
    /\ (buildNotionPropertyValue(FieldOf(CellType), Cell) = UNDEFINED)
         <=> Unencodable(CellType, Cell)
    /\ Staged <=> ~Unencodable(CellType, Cell)
    /\ Staged => DOMAIN Built = {FieldOf(CellType)}
C24_Witness ==
  /\ Previewed
  /\ CellType = "number"
  /\ Cell = Str(<<"x">>)
  /\ ~Staged
  /\ Keys(CodecPlan.changes) = {"Amount"}

(***************************************************************************)
(* Properties of the end of a run (checked under SpecLive)                 *)
(***************************************************************************)
\* C29: when every request is answered and every delay ends, a run that is
\* running comes to done or to error.
C29_RunEnds == (runStatus = "running") ~> (runStatus \in {"done", "error"})
C29_Witness ==
  /\ runStatus = "done"
  /\ runs = 2
  /\ delays > 0
  /\ Len(calls) > 2

\* C30: a run that is done shows a progress of 100, whatever its plans are
\* and also when it has none.
C30_DoneIsFull == runStatus = "done" => progress = 100

====
